---- MODULE Spec2Model ----
(***************************************************************************)
(* State-machine model of the ScreenLogger component (screen-logger.tsx,   *)
(* kept under src/unnamed/part_000; src/src/components/dev-screen-logger   *)
(* .tsx carries the same controller code) together with the early-capture  *)
(* module (early-logs.ts, src/unnamed/part_002).                           *)
(*                                                                         *)
(* The model follows one mounted component, instance "A"; a second        *)
(* ScreenLogger on the same page, instance "B", is followed only as far   *)
(* as it shares the page with A: console, window.screenLog and the DOM.   *)
(* An entry is a record [sid, kind, text]; sid numbers the submissions to  *)
(* genericLogger.                                                          *)
(* Variables below the line "history" record what happened and are never   *)
(* read by the modelled code.                                              *)
(***************************************************************************)
EXTENDS Integers, Sequences, FiniteSets, TLC

\* ------------------------------------------------------------------ bounds
MaxSubmissions == 3      \* entries submitted to genericLogger in one run
MaxEarly       == 4      \* entries pushed to earlyLogs in one run
MaxElapsed     == 1000   \* milliseconds of clock time explored
MaxTimers      == 2      \* status-message timeouts pending at once
MaxRun         == 7      \* length of a tracked run of toggles
MaxCopies      == 2      \* clipboard writes pending at once
MaxTestSignals == 2      \* firings of the test-signal interval in one run

\* --------------------------------------------------------------- constants
StartTime         == 1000  \* Date.now() when the page loads (any value >= 0)
InitialDelay      == 250   \* throttleConfigRef / throttleDelay initial delay
Delay250          == 250
Delay500          == 500
Delay1000         == 1000
StatusDelay       == 50    \* setTimeout(..., 50) in toggleThrottling
NoTimeout         == 0     \* throttleTimeoutRef.current = null
ReplayCap         == 200   \* replayLogsToScreenLogger(maxEntries = 200)

Kinds         == {"log", "info", "warn", "error"}
SearchQueries == {"", "a", "ab"}
Offsets       == {250, 500, 1000}  \* explored instants, after StartTime
AppTexts      == {"app"}
Circular      == "circular"  \* an object that refers to itself:
                             \* JSON.stringify(arg, null, 2) throws
Placeholder   == "[Circular]" \* what dev-screen-logger.tsx renders for it
CallArgs      == AppTexts \cup {Circular}
Instances     == {"A", "B"}
NoSink        == "none"      \* window.screenLog is undefined

MsgEnabled  == "THROTTLING ENABLED: 250ms"
MsgSet500   == "THROTTLING SET TO: 500ms"
MsgSet1000  == "THROTTLING SET TO: 1000ms"
MsgPaused   == "LOGGING PAUSED - No new logs will be shown"
MsgDisabled == "THROTTLING DISABLED - Normal logging resumed"
MsgInit     == "Screen logger initialized."
MsgTest     == "Test log"
MsgCleared  == "Logs cleared with Ctrl+X"
MsgCopied   == "Logs copied to clipboard"
MsgCopyFail == "Failed to copy logs"
SepStart    == "---------- EARLY LOGS ----------"
SepEnd      == "---------- END EARLY LOGS ----------"

VARIABLES
  \* props
  enableTesting, initiallyVisible,
  earlyLogsLoaded,    \* the component is screen-logger.tsx, which imports
                      \* early-logs.ts; FALSE: dev-screen-logger.tsx
  \* React state
  isVisible, isLoggingThrottled, throttleDelay, isLoggingPaused, searchQuery,
  keyPaused,          \* isLoggingPaused as captured by the keydown listener
  \* refs
  throttleConfigRef, isInitializedRef, logElementRef, lastLogTimeRef,
  pendingLogsRef, throttleTimeoutRef, testSignalIntervalRef,
  testSignalCountRef,
  intervals,          \* number of setInterval timers of the component
                      \* that are live
  \* page globals
  console,            \* console.log/info/warn/error: the instances whose
                      \* decorators wrap the functions bound at page load,
                      \* outermost first; each decorator calls the rest
  screenLog,          \* window.screenLog: the instance whose initScreenLog
                      \* made it, or NoSink
  closures,           \* per instance, its last initScreenLog call: made,
                      \* saved = _console, destroyed = destroy() was called
  other,              \* refs of instance B and its init timer:
                      \* [initTimer, isInitialized, logElement]
  panel,              \* a .screenlog panel is in the document
  clipboard,          \* navigator.clipboard.writeText promises not yet
                      \* settled
  rendered,           \* the entry element that genericLogger builds:
                      \* [args, nodes, built], nodes = the children of
                      \* its content container, built = args.forEach
                      \* has run
  earlyLogs,          \* early-logs.ts buffer
  content,            \* children of #screenlog-content
  headerCount,        \* number shown in #screenlog-header
  timeouts,           \* pending setTimeout(..., 50) callbacks, oldest first:
                      \* [message, ripe], ripe once the 50 ms have passed
  initTimer,          \* the setTimeout(..., 0) of the init effect is pending
  now,                \* Date.now()
  \* history
  nextSid,            \* sid of the next submission
  run,                \* modes visited by consecutive toggles from Normal
  lastSub,            \* the last submissions (at most two) made since the
                      \* config was last written or the sink (de)attached:
                      \* [at, adm], adm = appended to the panel
  stay,               \* the current stay in a throttled mode: [since, at],
                      \* at = instant of its last admission, since =
                      \* instant of the admission before that one or of
                      \* the toggle Normal -> Throttled(250) that began
                      \* the stay; 0 = none
  pausedBy,           \* what set the paused flag last: "manual" (the
                      \* toggle, the Pause button, Ctrl+P), "auto" (a
                      \* search), "none" while the flag is clear
  forwarded           \* the last call of a console channel or of a
                      \* window.screenLog entry point ran the function
                      \* bound at page load

props   == <<enableTesting, initiallyVisible, earlyLogsLoaded>>
ui      == <<isVisible, isLoggingThrottled, throttleDelay, isLoggingPaused,
             searchQuery, keyPaused>>
refs    == <<throttleConfigRef, isInitializedRef, logElementRef,
             lastLogTimeRef, pendingLogsRef, throttleTimeoutRef,
             testSignalIntervalRef, testSignalCountRef>>
globals == <<console, screenLog, earlyLogs, content, headerCount,
             timeouts, initTimer, now>>
sinks   == <<closures, other>>
history == <<nextSid, run, lastSub, stay, pausedBy, forwarded>>
vars    == <<props, ui, refs, intervals, globals, sinks, panel, clipboard,
             rendered, history>>

\* ------------------------------------------------------- controller modes
Normal(c)       == ~c.throttled /\ ~c.paused
Throttled(c, d) == c.throttled /\ ~c.paused /\ c.delay = d
Paused(c)       == c.paused /\ ~c.throttled
HasSnapshot(c)  == "_previousState" \in DOMAIN c

ModeOf(c) ==
  CASE Normal(c)                -> "Normal"
    [] Throttled(c, Delay250)   -> "Throttled(250)"
    [] Throttled(c, Delay500)   -> "Throttled(500)"
    [] Throttled(c, Delay1000)  -> "Throttled(1000)"
    [] Paused(c)                -> "Paused"
    [] OTHER                    -> "Other"

Cycle == <<"Normal", "Throttled(250)", "Throttled(500)", "Throttled(1000)",
           "Paused">>

\* run after an operation other than toggleThrottling wrote the config
RunReset(c) == IF Normal(c) THEN <<"Normal">> ELSE <<>>

\* ------------------------------------------------- the logging pipeline
\* The fields genericLogger and the console wrappers read and write, as one
\* record, so that a handler can make several calls in sequence.
\* thrown: an exception is propagating out of the call
Cur == [logElement |-> logElementRef, content |-> content,
        headerCount |-> headerCount, lastLogTime |-> lastLogTimeRef,
        earlyLogs |-> earlyLogs, nextSid |-> nextSid, lastSub |-> lastSub,
        stay |-> stay,
        panel |-> panel, forwarded |-> forwarded, thrown |-> FALSE]

Commit(l) ==
  /\ logElementRef' = l.logElement
  /\ content' = l.content
  /\ headerCount' = l.headerCount
  /\ lastLogTimeRef' = l.lastLogTime
  /\ earlyLogs' = l.earlyLogs
  /\ nextSid' = l.nextSid
  /\ lastSub' = l.lastSub
  /\ stay' = l.stay
  /\ panel' = l.panel
  /\ forwarded' = l.forwarded

Entry(l, kind, text) == [sid |-> l.nextSid, kind |-> kind, text |-> text]

\* history of a submission made now; outside the throttled modes only the
\* fate of the last submission is kept
Submitted(l, adm) ==
  IF throttleConfigRef.throttled /\ ~throttleConfigRef.paused
  THEN LET r == Append(l.lastSub, [at |-> now, adm |-> adm])
       IN IF Len(r) > 2 THEN Tail(r) ELSE r
  ELSE <<[at |-> 0, adm |-> adm]>>

\* no admission and no toggle since the config was written
NoStay == [since |-> 0, at |-> 0]

\* the stay after an entry was appended to the panel now
Stayed(l) ==
  IF throttleConfigRef.throttled /\ ~throttleConfigRef.paused
  THEN [since |-> IF l.stay.at # 0 THEN l.stay.at ELSE l.stay.since,
        at |-> now]
  ELSE l.stay

Discard(l) ==
  [l EXCEPT !.nextSid = @ + 1, !.lastSub = Submitted(l, FALSE)]

\* formatLogText throws before the entry is appended to the panel
Throw(l) == [Discard(l) EXCEPT !.thrown = TRUE]

\* Admit that puts the new entry on top of the panel
Admit_Prepend(l, kind, text) ==
  LET c == <<Entry(l, kind, text)>> \o l.content
  IN [l EXCEPT !.content = c,
               !.headerCount = Len(c),
               !.nextSid = @ + 1,
               !.lastSub = Submitted(l, TRUE),
               !.stay = Stayed(l)]

\* Admit that first delivers the entry submitted before it, if it is not
\* in the panel (a queue of discarded entries flushed on the next admission)
Admit_FlushPending(l, kind, text) ==
  LET held == IF l.nextSid > 1
                 /\ \A i \in DOMAIN l.content :
                       l.content[i].sid # l.nextSid - 1
              THEN <<[sid |-> l.nextSid - 1, kind |-> kind, text |-> text]>>
              ELSE <<>>
      c == Append(l.content \o held, Entry(l, kind, text))
  IN [l EXCEPT !.content = c,
               !.headerCount = Len(c),
               !.nextSid = @ + 1,
               !.lastSub = Submitted(l, TRUE),
               !.stay = Stayed(l)]

Admit(l, kind, text) ==
  LET c == Append(l.content, Entry(l, kind, text))
  IN [l EXCEPT !.content = c,
               !.headerCount = Len(c),
               !.nextSid = @ + 1,
               !.lastSub = Submitted(l, TRUE),
               !.stay = Stayed(l)]

\* the rendering of the arguments, then contentEl.appendChild(el).
\* screen-logger.tsx (the component that loads early-logs.ts) serialises an
\* object outside any try; dev-screen-logger.tsx catches the exception and
\* renders the placeholder.
Render(l, kind, text) ==
  IF text = Circular
  THEN IF earlyLogsLoaded THEN Throw(l) ELSE Admit(l, kind, Placeholder)
  ELSE Admit(l, kind, text)

\* RenderThrottled that leaves lastLogTimeRef as it was
RenderThrottled_NoStamp(l, kind, text) == Render(l, kind, text)

\* the throttled branch of genericLogger once the delay has passed
RenderThrottled(l, kind, text) ==
  LET r == Render(l, kind, text)
  IN IF r.thrown THEN r ELSE [r EXCEPT !.lastLogTime = now]

\* genericLogger without the check of paused
genericLogger_IgnorePause(l, kind, text) ==
  IF ~l.logElement \/ ~l.panel THEN Discard(l)
  ELSE IF throttleConfigRef.throttled
       THEN IF now - l.lastLogTime >= throttleConfigRef.delay
            THEN RenderThrottled(l, kind, text)
            ELSE Discard(l)
       ELSE Render(l, kind, text)

\* genericLogger that does not record the time of a throttled admission
genericLogger_KeepLastLogTime(l, kind, text) ==
  IF ~l.logElement \/ throttleConfigRef.paused \/ ~l.panel THEN Discard(l)
  ELSE IF throttleConfigRef.throttled
       THEN IF now - l.lastLogTime >= throttleConfigRef.delay
            THEN Render(l, kind, text)
            ELSE Discard(l)
       ELSE Render(l, kind, text)

\* genericLogger that applies the time gate whether throttled or not
genericLogger_AlwaysGate(l, kind, text) ==
  IF ~l.logElement \/ throttleConfigRef.paused \/ ~l.panel THEN Discard(l)
  ELSE IF now - l.lastLogTime >= throttleConfigRef.delay
       THEN RenderThrottled(l, kind, text)
       ELSE Discard(l)

\* genericLogger(color)(...args) of instance A; contentEl is the content
\* container of whichever panel is in the document
genericLogger(l, kind, text) ==
  IF ~l.logElement \/ throttleConfigRef.paused \/ ~l.panel THEN Discard(l)
  ELSE IF throttleConfigRef.throttled
       THEN IF now - l.lastLogTime >= throttleConfigRef.delay
            THEN RenderThrottled(l, kind, text)
            ELSE Discard(l)
       ELSE Render(l, kind, text)

\* genericLogger of instance B, whose controller stays Normal; attached is
\* B's logElementRef.  B's submissions are not part of lastSub.
otherLogger(l, attached, kind, text) ==
  IF ~attached \/ ~l.panel THEN [l EXCEPT !.nextSid = @ + 1]
  ELSE [Render(l, kind, text) EXCEPT !.lastSub = l.lastSub, !.stay = l.stay]

\* fn of the decorator made by instance x
sinkLogger(x, l, kind, text) ==
  IF x = "A" THEN genericLogger(l, kind, text)
  ELSE otherLogger(l, other.logElement, kind, text)

\* console.<kind> before the sink wraps it: the wrapper installed by
\* early-logs.ts (push, then the native function) or the native function.
\* The timestamp of a pushed entry is never read and is left out.
earlyCapture(l, kind, text) ==
  IF earlyLogsLoaded
  THEN [l EXCEPT !.earlyLogs = Append(@, [type |-> kind, text |-> text])]
  ELSE l

\* the function bound to console.<kind> at page load
native(l, kind, text) ==
  [earlyCapture(l, kind, text) EXCEPT !.forwarded = TRUE]

\* a call of the function binding b: each decorator runs its fn, then
\* what it saved, unless fn throws
RECURSIVE callBinding(_, _, _, _)
callBinding(l, b, kind, text) ==
  IF b = <<>> THEN native(l, kind, text)
  ELSE LET l1 == sinkLogger(Head(b), l, kind, text)
       IN IF l1.thrown THEN l1 ELSE callBinding(l1, Tail(b), kind, text)

\* originalFnCallDecorator(fn, fnName) of instance x: fn, then
\* _console[fnName]; saved is the _console of the initScreenLog call
originalFnCallDecorator(l, x, saved, kind, text) ==
  callBinding([l EXCEPT !.forwarded = FALSE], <<x>> \o saved, kind, text)

\* window.screenLog.log(text) behind "if (window.screenLog)"
screenLogLog(l, text) ==
  IF screenLog # NoSink
  THEN originalFnCallDecorator(l, screenLog, closures[screenLog].saved,
                               "log", text)
  ELSE l

\* the run stays within the explored number of submissions and pushes
Bounded ==
  /\ nextSid' <= MaxSubmissions + 1
  /\ Len(earlyLogs') <= MaxEarly

\* updateLogCount()
updateLogCount(l) ==
  IF l.logElement /\ l.panel
  THEN [l EXCEPT !.headerCount = Len(l.content)] ELSE l

\* updateThrottlingIndicator(): the indicator is a child of the panel, not of
\* the content container; only its call of updateLogCount touches the model
updateThrottlingIndicator(l, c) ==
  IF l.logElement /\ (c.throttled \/ c.paused) THEN updateLogCount(l) ELSE l

\* ------------------------------------------------------------ test signals
\* testSignalIntervalRef is TRUE while it holds a live interval.  The period
\* (delay when throttled, else 10 ms) is left out: a live interval may fire
\* at any time.
\* startContinuousTestSignals that arms without clearing the interval held
startContinuousTestSignals_NoClear ==
  /\ intervals' = intervals + 1
  /\ testSignalIntervalRef' = TRUE

startContinuousTestSignals ==
  /\ intervals' = (IF testSignalIntervalRef THEN intervals - 1
                   ELSE intervals) + 1
  /\ testSignalIntervalRef' = TRUE

stopContinuousTestSignals ==
  /\ intervals' = IF testSignalIntervalRef THEN intervals - 1 ELSE intervals
  /\ testSignalIntervalRef' = FALSE

\* ------------------------------------------------------------ early replay
\* strings of the model that contain "EARLY LOGS"
ContainsEarlyLogs(text) == text \in {SepStart, SepEnd}

\* earlyLogs.slice(-maxEntries)
LastN(s, n) == IF Len(s) <= n THEN s ELSE SubSeq(s, Len(s) - n + 1, Len(s))

\* mutant of replayEach: every entry is replayed through
\* window.screenLog.log
RECURSIVE replayEach_AllLog(_, _, _)
replayEach_AllLog(l, saved, logs) ==
  IF logs = <<>> \/ l.thrown THEN l
  ELSE replayEach_AllLog(
         originalFnCallDecorator(l, "A", saved, "log", Head(logs).text),
         saved, Tail(logs))

\* the loop of replayLogsToScreenLogger; an exception ends it.  The loop
\* over logs is the loop over its first half followed by the loop over its
\* second half.
RECURSIVE replayEach(_, _, _)
replayEach(l, saved, logs) ==
  IF logs = <<>> \/ l.thrown THEN l
  ELSE IF Len(logs) = 1
    THEN originalFnCallDecorator(l, "A", saved, logs[1].type, logs[1].text)
  ELSE LET h == Len(logs) \div 2
           l1 == replayEach(l, saved, SubSeq(logs, 1, h))
       IN replayEach(l1, saved, SubSeq(logs, h + 1, Len(logs)))

\* mutant of replayLogsToScreenLogger: the buffered separators are replayed
replayLogsToScreenLogger_NoFilter(l, saved) ==
  IF Len(l.earlyLogs) = 0 THEN l
  ELSE LET l1 == originalFnCallDecorator(l, "A", saved, "log", SepStart)
           l2 == replayEach(l1, saved, LastN(l1.earlyLogs, ReplayCap))
       IN IF l2.thrown THEN l2
          ELSE originalFnCallDecorator(l2, "A", saved, "log", SepEnd)

\* replayLogsToScreenLogger that does not return on an empty buffer
replayLogsToScreenLogger_EmptyToo(l, saved) ==
  LET l1 == originalFnCallDecorator(l, "A", saved, "log", SepStart)
      logsToReplay ==
        SelectSeq(LastN(l1.earlyLogs, ReplayCap),
                  LAMBDA e : ~ContainsEarlyLogs(e.text))
      l2 == replayEach(l1, saved, logsToReplay)
  IN IF l2.thrown THEN l2
     ELSE originalFnCallDecorator(l2, "A", saved, "log", SepEnd)

\* replayLogsToScreenLogger(), called by initScreenLog of instance A right
\* after it set window.screenLog; saved is the _console of that call
replayLogsToScreenLogger(l, saved) ==
  IF Len(l.earlyLogs) = 0 THEN l
  ELSE LET l1 == originalFnCallDecorator(l, "A", saved, "log", SepStart)
           logsToReplay ==
             SelectSeq(LastN(l1.earlyLogs, ReplayCap),
                       LAMBDA e : ~ContainsEarlyLogs(e.text))
           l2 == replayEach(l1, saved, logsToReplay)
       IN IF l2.thrown THEN l2
          ELSE originalFnCallDecorator(l2, "A", saved, "log", SepEnd)

\* logElementRef.current of instance x
Attached(x, l) == IF x = "A" THEN l.logElement ELSE other.logElement

\* mutant of clear: a paused controller keeps its entries
clear_UnlessPaused(l, x) ==
  IF Attached(x, l) /\ l.panel /\ ~throttleConfigRef.paused
  THEN [l EXCEPT !.content = <<>>, !.headerCount = 0] ELSE l

\* clear() of the initScreenLog call of instance x
clear(l, x) ==
  IF Attached(x, l) /\ l.panel
  THEN [l EXCEPT !.content = <<>>, !.headerCount = 0] ELSE l

\* console.clear(): the clear of every decorator in the binding
clearBinding(l, b) ==
  IF \E i \in DOMAIN b : Attached(b[i], l) /\ l.panel
  THEN [l EXCEPT !.content = <<>>, !.headerCount = 0] ELSE l

\* -------------------------------------------------------------------- Init
\* the page after the component is constructed, before its init effect
InitPage ==
  /\ enableTesting \in BOOLEAN
  /\ initiallyVisible \in BOOLEAN
  /\ earlyLogsLoaded \in BOOLEAN
  /\ isVisible = initiallyVisible
  /\ isLoggingThrottled = FALSE
  /\ throttleDelay = InitialDelay
  /\ isLoggingPaused = FALSE
  /\ searchQuery = ""
  /\ keyPaused = FALSE
  /\ throttleConfigRef =
       [throttled |-> FALSE, paused |-> FALSE, delay |-> InitialDelay]
  /\ isInitializedRef = FALSE
  /\ logElementRef = FALSE
  /\ lastLogTimeRef = 0
  /\ pendingLogsRef = <<>>
  /\ throttleTimeoutRef = NoTimeout
  /\ testSignalIntervalRef = FALSE
  /\ intervals = 0
  /\ testSignalCountRef = 0
  /\ console = <<>>
  /\ screenLog = NoSink
  /\ closures = [x \in Instances |->
                   [made |-> FALSE, saved |-> <<>>, destroyed |-> FALSE]]
  /\ \E mounted \in BOOLEAN :
       other = [initTimer |-> mounted, isInitialized |-> FALSE,
                logElement |-> FALSE]
  /\ panel = FALSE
  /\ clipboard = 0
  /\ earlyLogs = <<>>
  /\ content = <<>>
  /\ headerCount = 0
  /\ timeouts = <<>>
  /\ initTimer = TRUE
  /\ now = StartTime
  /\ nextSid = 1
  /\ run = <<"Normal">>
  /\ pausedBy = "none"
  /\ lastSub = <<>>
  /\ stay = NoStay
  /\ forwarded = TRUE

\* no entry element is under construction
Init == InitPage /\ rendered = [args |-> <<>>, nodes |-> <<>>, built |-> TRUE]

\* ----------------------------------------------------------------- actions
\* The clock moves to a later instant.  Two instants are at least
\* StatusDelay apart, so every pending timeout becomes ripe; a ripe timeout
\* may still fire arbitrarily late.
AdvanceTime(t) ==
  /\ t <= MaxElapsed
  /\ StartTime + t > now
  /\ now' = StartTime + t
  /\ timeouts' = [i \in DOMAIN timeouts |->
                    [timeouts[i] EXCEPT
                       !.ripe = (StartTime + t - now >= StatusDelay)]]
  /\ UNCHANGED <<props, clipboard, rendered, ui, refs, intervals, sinks, panel, history>>
  /\ UNCHANGED <<console, screenLog, earlyLogs, content, headerCount,
                 initTimer>>

\* the variables Commit does not write
LogFrame ==
  UNCHANGED <<props, clipboard, rendered, ui, throttleConfigRef, isInitializedRef, pendingLogsRef,
              throttleTimeoutRef, console, screenLog, sinks, timeouts,
              initTimer, now, run, pausedBy>>

\* the page calls console.<kind>(text)
ConsoleCall(kind, text) ==
  LET l == callBinding([Cur EXCEPT !.forwarded = FALSE], console, kind, text)
  IN /\ Commit(l)
     /\ LogFrame
     /\ UNCHANGED <<testSignalIntervalRef, intervals, testSignalCountRef>>

\* the page calls window.screenLog.<kind>(text)
ScreenLogCall(kind, text) ==
  LET l == originalFnCallDecorator(Cur, screenLog,
                                   closures[screenLog].saved, kind, text)
  IN /\ screenLog # NoSink
     /\ Commit(l)
     /\ LogFrame
     /\ UNCHANGED <<testSignalIntervalRef, intervals, testSignalCountRef>>

\* toggleThrottling's table with a step from 1000 ms to 2000 ms
ToggleTarget_To2000(c) ==
  IF ~c.throttled /\ ~c.paused
    THEN [throttled |-> TRUE, paused |-> FALSE, delay |-> Delay250,
          message |-> MsgEnabled]
  ELSE IF c.throttled /\ c.delay = Delay250
    THEN [throttled |-> TRUE, paused |-> FALSE, delay |-> Delay500,
          message |-> MsgSet500]
  ELSE IF c.throttled /\ c.delay = Delay500
    THEN [throttled |-> TRUE, paused |-> FALSE, delay |-> Delay1000,
          message |-> MsgSet1000]
  ELSE IF c.throttled /\ c.delay = Delay1000
    THEN [throttled |-> TRUE, paused |-> FALSE, delay |-> 2 * Delay1000,
          message |-> MsgSet1000]
  ELSE IF c.throttled
    THEN [throttled |-> FALSE, paused |-> TRUE, delay |-> Delay1000,
          message |-> MsgPaused]
  ELSE [throttled |-> FALSE, paused |-> FALSE, delay |-> InitialDelay,
        message |-> MsgDisabled]

\* toggleThrottling's table without the step to 1000 ms
ToggleTarget_Skip1000(c) ==
  IF ~c.throttled /\ ~c.paused
    THEN [throttled |-> TRUE, paused |-> FALSE, delay |-> Delay250,
          message |-> MsgEnabled]
  ELSE IF c.throttled /\ c.delay = Delay250
    THEN [throttled |-> TRUE, paused |-> FALSE, delay |-> Delay500,
          message |-> MsgSet500]
  ELSE IF c.throttled
    THEN [throttled |-> FALSE, paused |-> TRUE, delay |-> Delay1000,
          message |-> MsgPaused]
  ELSE [throttled |-> FALSE, paused |-> FALSE, delay |-> InitialDelay,
        message |-> MsgDisabled]

\* toggleThrottling's table leaving Paused for Throttled(250)
ToggleTarget_PausedTo250(c) ==
  IF (~c.throttled /\ ~c.paused) \/ (~c.throttled /\ c.paused)
    THEN [throttled |-> TRUE, paused |-> FALSE, delay |-> Delay250,
          message |-> MsgEnabled]
  ELSE IF c.throttled /\ c.delay = Delay250
    THEN [throttled |-> TRUE, paused |-> FALSE, delay |-> Delay500,
          message |-> MsgSet500]
  ELSE IF c.throttled /\ c.delay = Delay500
    THEN [throttled |-> TRUE, paused |-> FALSE, delay |-> Delay1000,
          message |-> MsgSet1000]
  ELSE [throttled |-> FALSE, paused |-> TRUE, delay |-> Delay1000,
        message |-> MsgPaused]

\* the transition table of toggleThrottling: the new config and the message
ToggleTarget(c) ==
  IF ~c.throttled /\ ~c.paused
    THEN [throttled |-> TRUE, paused |-> FALSE, delay |-> Delay250,
          message |-> MsgEnabled]
  ELSE IF c.throttled /\ c.delay = Delay250
    THEN [throttled |-> TRUE, paused |-> FALSE, delay |-> Delay500,
          message |-> MsgSet500]
  ELSE IF c.throttled /\ c.delay = Delay500
    THEN [throttled |-> TRUE, paused |-> FALSE, delay |-> Delay1000,
          message |-> MsgSet1000]
  ELSE IF c.throttled /\ c.delay = Delay1000
    THEN [throttled |-> FALSE, paused |-> TRUE, delay |-> Delay1000,
          message |-> MsgPaused]
  ELSE [throttled |-> FALSE, paused |-> FALSE, delay |-> InitialDelay,
        message |-> MsgDisabled]

\* Throttle button or Ctrl+T
toggleThrottling ==
  LET current == throttleConfigRef
      t == ToggleTarget(current)
      new == [throttled |-> t.throttled, paused |-> t.paused,
              delay |-> t.delay]
  IN /\ isVisible
     /\ Len(timeouts) < MaxTimers
     /\ throttleTimeoutRef' = NoTimeout
     /\ stopContinuousTestSignals
     /\ lastLogTimeRef' = IF ~current.throttled /\ ~current.paused
                          THEN now ELSE lastLogTimeRef
     /\ throttleConfigRef' = new
     /\ isLoggingThrottled' = t.throttled
     /\ isLoggingPaused' = t.paused
     /\ throttleDelay' = t.delay
     /\ pendingLogsRef' = <<>>
     /\ timeouts' = Append(timeouts, [message |-> t.message,
                                      ripe |-> FALSE])
     /\ run' = IF run # <<>> /\ Len(run) < MaxRun
               THEN Append(run, ModeOf(new)) ELSE <<>>
     /\ pausedBy' = IF new.paused THEN "manual" ELSE "none"
     /\ lastSub' = <<>>
     /\ stay' = IF ~current.throttled /\ ~current.paused
                THEN [since |-> now, at |-> 0] ELSE NoStay
     /\ UNCHANGED <<props, clipboard, rendered, isVisible, searchQuery, keyPaused>>
     /\ UNCHANGED <<isInitializedRef, logElementRef, testSignalCountRef>>
     /\ UNCHANGED <<console, screenLog, earlyLogs, content,
                    headerCount, initTimer, now>>
     /\ UNCHANGED <<sinks, panel, nextSid, forwarded>>

\* the callback of the setTimeout(..., 50) armed by toggleThrottling
StatusTimerFire ==
  /\ timeouts # <<>>
  /\ Head(timeouts).ripe
  /\ LET l == updateThrottlingIndicator(
                screenLogLog(Cur, Head(timeouts).message), throttleConfigRef)
     IN Commit(l)
  /\ timeouts' = Tail(timeouts)
  /\ IF enableTesting
       THEN startContinuousTestSignals
       ELSE UNCHANGED <<testSignalIntervalRef, intervals>>
  /\ UNCHANGED <<props, clipboard, rendered, ui, throttleConfigRef, isInitializedRef,
                 pendingLogsRef, throttleTimeoutRef, testSignalCountRef,
                 console, screenLog, sinks, initTimer, now, run, pausedBy>>

\* one firing of the test-signal interval
TestSignalFire ==
  /\ testSignalIntervalRef
  /\ testSignalCountRef < MaxTestSignals
  /\ testSignalCountRef' = testSignalCountRef + 1
  /\ Commit(screenLogLog(Cur, MsgTest))
  /\ LogFrame
  /\ UNCHANGED <<testSignalIntervalRef, intervals>>

\* the values an edit of the search box can give it: a first character is
\* typed into the empty box, a second one is added or removed, the box is
\* emptied
NextQueries(q) ==
  CASE q = ""   -> {"a"}
    [] q = "a"  -> {"", "ab"}
    [] q = "ab" -> {"", "a"}

\* the config with the snapshot of c taken and the pause forced
AutoPaused(c) ==
  [f \in DOMAIN c \cup {"_previousState"} |->
     CASE f = "_previousState" ->
            [throttled |-> c.throttled, delay |-> c.delay]
       [] f = "paused" -> TRUE
       [] f = "throttled" -> FALSE
       [] OTHER -> c[f]]

\* the config with the snapshot of c restored and deleted
Restored(c) ==
  [f \in DOMAIN c \ {"_previousState"} |->
     CASE f = "paused" -> FALSE
       [] f = "throttled" -> c["_previousState"].throttled
       [] f = "delay" -> c["_previousState"].delay
       [] OTHER -> c[f]]

\* handleSearchChange that takes the snapshot although paused
SearchTarget_SnapshotWhenPaused(c, old, query) ==
  IF old = "" /\ query # "" THEN AutoPaused(c)
  ELSE IF old # "" /\ query = "" /\ c.paused /\ HasSnapshot(c)
    THEN Restored(c)
  ELSE c

\* handleSearchChange that auto-pauses on every non-empty query
SearchTarget_EveryQuery(c, old, query) ==
  IF query # "" THEN AutoPaused(c)
  ELSE IF old # "" /\ c.paused /\ HasSnapshot(c) THEN Restored(c)
  ELSE c

\* the config after handleSearchChange(query) when the query was searchQuery
SearchTarget(c, old, query) ==
  LET wasPreviouslySearching == old # ""
      isNowSearching == query # ""
  IN IF ~wasPreviouslySearching /\ isNowSearching
       THEN IF ~c.paused THEN AutoPaused(c) ELSE c
     ELSE IF wasPreviouslySearching /\ ~isNowSearching
       THEN IF c.paused /\ HasSnapshot(c) THEN Restored(c) ELSE c
     ELSE c

\* onChange of the search input.  filterLogs only sets style.display of the
\* entries, which is not part of the model.
handleSearchChange(query) ==
  LET c == throttleConfigRef
      new == SearchTarget(c, searchQuery, query)
      starts == searchQuery = "" /\ query # "" /\ ~c.paused
      ends == searchQuery # "" /\ query = "" /\ c.paused /\ HasSnapshot(c)
      l == IF starts \/ ends
           THEN updateThrottlingIndicator(Cur, new) ELSE Cur
  IN /\ isVisible
     /\ query \in NextQueries(searchQuery)
     /\ searchQuery' = query
     /\ throttleConfigRef' = new
     /\ isLoggingPaused' = IF starts THEN TRUE
                           ELSE IF ends THEN FALSE ELSE isLoggingPaused
     /\ isLoggingThrottled' = IF starts THEN FALSE
                              ELSE IF ends THEN new.throttled
                              ELSE isLoggingThrottled
     /\ Commit([l EXCEPT !.lastSub = IF starts \/ ends THEN <<>> ELSE @,
                         !.stay = IF starts \/ ends THEN NoStay ELSE @])
     /\ run' = IF starts \/ ends THEN RunReset(new) ELSE run
     /\ pausedBy' = IF starts THEN "auto"
                     ELSE IF ends THEN "none" ELSE pausedBy
     /\ UNCHANGED <<props, clipboard, rendered, isVisible, throttleDelay, keyPaused>>
     /\ UNCHANGED <<isInitializedRef, pendingLogsRef, throttleTimeoutRef,
                    testSignalIntervalRef, intervals, testSignalCountRef>>
     /\ UNCHANGED <<console, screenLog, sinks, timeouts, initTimer, now>>

\* onClick of the Pause/Resume button
PauseButton ==
  LET current == throttleConfigRef
      new == [current EXCEPT !.paused = ~current.paused]
  IN /\ isVisible
     /\ throttleConfigRef' = new
     /\ isLoggingPaused' = ~isLoggingPaused
     /\ Commit([updateThrottlingIndicator(Cur, new) EXCEPT !.lastSub = <<>>,
                                                          !.stay = NoStay])
     /\ run' = RunReset(new)
     /\ pausedBy' = IF new.paused THEN "manual" ELSE "none"
     /\ UNCHANGED <<props, clipboard, rendered, isVisible, isLoggingThrottled, throttleDelay,
                    searchQuery, keyPaused>>
     /\ UNCHANGED <<isInitializedRef, pendingLogsRef, throttleTimeoutRef,
                    testSignalIntervalRef, intervals, testSignalCountRef>>
     /\ UNCHANGED <<console, screenLog, sinks, timeouts, initTimer, now>>

\* Ctrl+P in handleKeyDown; the listener's isLoggingPaused is the one of the
\* render that registered it
CtrlP ==
  LET new == [throttleConfigRef EXCEPT !.paused = ~throttleConfigRef.paused]
  IN /\ isVisible
     /\ isLoggingPaused' = ~keyPaused
     /\ throttleConfigRef' = new
     /\ Commit([updateThrottlingIndicator(Cur, new) EXCEPT !.lastSub = <<>>,
                                                          !.stay = NoStay])
     /\ run' = RunReset(new)
     /\ pausedBy' = IF new.paused THEN "manual" ELSE "none"
     /\ UNCHANGED <<props, clipboard, rendered, isVisible, isLoggingThrottled, throttleDelay,
                    searchQuery, keyPaused>>
     /\ UNCHANGED <<isInitializedRef, pendingLogsRef, throttleTimeoutRef,
                    testSignalIntervalRef, intervals, testSignalCountRef>>
     /\ UNCHANGED <<console, screenLog, sinks, timeouts, initTimer, now>>

\* what the clear handlers leave alone
ClearFrame ==
  /\ pendingLogsRef' = <<>>
  /\ throttleTimeoutRef' = NoTimeout
  /\ UNCHANGED <<props, clipboard, rendered, ui, throttleConfigRef, isInitializedRef,
                 testSignalIntervalRef, intervals, testSignalCountRef>>
  /\ UNCHANGED <<console, screenLog, sinks, timeouts, initTimer, now, run, pausedBy>>

\* onClick of the Clear button: window.screenLog.clear()
ClearButton ==
  /\ isVisible
  /\ screenLog # NoSink
  /\ Commit(clearBinding(clear(Cur, screenLog), closures[screenLog].saved))
  /\ ClearFrame

\* the page calls console.clear() while the sink's decorator is installed
ConsoleClear ==
  /\ console # <<>>
  /\ Commit(clearBinding(Cur, console))
  /\ ClearFrame

\* Ctrl+X: window.screenLog.clear(), then window.screenLog.log(...)
CtrlX ==
  LET l == screenLogLog(
             clearBinding(clear(Cur, screenLog), closures[screenLog].saved),
             MsgCleared)
  IN /\ isVisible
     /\ screenLog # NoSink
     /\ Commit(l)
     /\ ClearFrame

\* toggleVisibility(!isVisible) from the Show/Hide button or Ctrl+K, with
\* the effects that run after the render: the isVisible effect, the init
\* effect (initScreenLog depends on isVisible) and the keydown effect.
\* The isVisible effect never restarts the test signals: the panel always
\* has its header and content children.
toggleVisibility ==
  LET show == ~isVisible
  IN /\ isVisible' = show
     /\ IF logElementRef /\ show /\ enableTesting
           /\ ~testSignalIntervalRef
          THEN startContinuousTestSignals
        ELSE IF logElementRef /\ ~show
          THEN stopContinuousTestSignals
        ELSE UNCHANGED <<testSignalIntervalRef, intervals>>
     /\ pendingLogsRef' = <<>>
     /\ throttleTimeoutRef' = NoTimeout
     /\ initTimer' = ~isInitializedRef
     /\ keyPaused' = isLoggingPaused
     /\ UNCHANGED <<props, clipboard, rendered, isLoggingThrottled, throttleDelay, isLoggingPaused,
                    searchQuery>>
     /\ UNCHANGED <<throttleConfigRef, isInitializedRef, logElementRef,
                    lastLogTimeRef, testSignalCountRef>>
     /\ UNCHANGED <<console, screenLog, earlyLogs, content,
                    headerCount, timeouts, now>>
     /\ UNCHANGED <<sinks, panel, history>>

\* initScreenLog() of instance A past its early return: the other panels
\* are removed, the new panel is added, the decorators and window.screenLog
\* are installed (by the caller), then the first entry and the replay of
\* the early logs; saved is the _console of this call
initScreenLog(l, saved) ==
  LET l0 == [l EXCEPT !.logElement = TRUE, !.panel = TRUE, !.content = <<>>,
                      !.headerCount = 0, !.lastSub = <<>>]
      l1 == genericLogger(l0, "log", MsgInit)
      l2 == updateThrottlingIndicator(l1, throttleConfigRef)
  IN IF earlyLogsLoaded THEN replayLogsToScreenLogger(l2, saved) ELSE l2

\* the callback of the init effect's setTimeout(..., 0):
\* setIsVisible(initiallyVisible); initScreenLog(); isInitializedRef = true,
\* then the effects of the render if isVisible changed.  An exception in
\* initScreenLog skips what follows it in initScreenLog and in the callback.
InitTimerFire ==
  LET skip == isInitializedRef /\ logElementRef
      l == IF skip THEN Cur ELSE initScreenLog(Cur, console)
      changed == isVisible # initiallyVisible
      done == IF l.thrown THEN isInitializedRef ELSE TRUE
  IN /\ initTimer
     /\ initTimer' = (changed /\ ~done)
     /\ isVisible' = initiallyVisible
     /\ keyPaused' = IF changed THEN isLoggingPaused ELSE keyPaused
     /\ Commit(l)
     /\ console' = IF skip THEN console ELSE <<"A">> \o console
     /\ screenLog' = IF skip THEN screenLog ELSE "A"
     /\ closures' = IF skip THEN closures
                    ELSE [closures EXCEPT !["A"] =
                            [made |-> TRUE, saved |-> console,
                             destroyed |-> FALSE]]
     /\ isInitializedRef' = done
     /\ IF ~skip /\ ~l.thrown /\ enableTesting /\ initiallyVisible
          THEN startContinuousTestSignals
        ELSE IF changed /\ done /\ ~initiallyVisible
          THEN stopContinuousTestSignals
        ELSE UNCHANGED <<testSignalIntervalRef, intervals>>
     /\ pendingLogsRef' = <<>>
     /\ throttleTimeoutRef' = IF changed /\ ~initiallyVisible
                              THEN NoTimeout ELSE throttleTimeoutRef
     /\ UNCHANGED <<props, clipboard, rendered, isLoggingThrottled, throttleDelay, isLoggingPaused,
                    searchQuery>>
     /\ UNCHANGED <<throttleConfigRef, testSignalCountRef>>
     /\ UNCHANGED <<other, timeouts, now, run, pausedBy>>

\* the init timer of instance B: its initScreenLog.  B is mounted without
\* test signals and without the early-capture module.
OtherInitTimerFire ==
  LET skip == other.isInitialized /\ other.logElement
      l0 == [Cur EXCEPT !.panel = TRUE, !.content = <<>>, !.headerCount = 0,
                        !.lastSub = <<>>]
      l == IF skip THEN Cur ELSE otherLogger(l0, TRUE, "log", MsgInit)
  IN /\ other.initTimer
     /\ other' = [initTimer |-> FALSE, isInitialized |-> TRUE,
                  logElement |-> TRUE]
     /\ Commit(l)
     /\ console' = IF skip THEN console ELSE <<"B">> \o console
     /\ screenLog' = IF skip THEN screenLog ELSE "B"
     /\ closures' = IF skip THEN closures
                    ELSE [closures EXCEPT !["B"] =
                            [made |-> TRUE, saved |-> console,
                             destroyed |-> FALSE]]
     /\ UNCHANGED <<props, clipboard, rendered, ui, throttleConfigRef, isInitializedRef,
                    pendingLogsRef, throttleTimeoutRef,
                    testSignalIntervalRef, intervals, testSignalCountRef>>
     /\ UNCHANGED <<timeouts, initTimer, now, run, pausedBy>>

\* destroy() that removes the panel and leaves the console as it is
destroy_KeepDecorators(h) ==
  /\ closures[h].made
  /\ console' = console
  /\ closures' = [closures EXCEPT ![h].destroyed = TRUE]
  /\ panel' = FALSE
  /\ content' = <<>>
  /\ headerCount' = 0
  /\ IF h = "A"
       THEN /\ isInitializedRef' = FALSE
            /\ logElementRef' = FALSE
            /\ UNCHANGED other
       ELSE /\ other' = [other EXCEPT !.isInitialized = FALSE,
                                      !.logElement = FALSE]
            /\ UNCHANGED <<isInitializedRef, logElementRef>>
  /\ throttleTimeoutRef' = NoTimeout
  /\ lastSub' = <<>>
  /\ UNCHANGED <<props, clipboard, rendered, ui>>
  /\ UNCHANGED <<throttleConfigRef, lastLogTimeRef, pendingLogsRef,
                 testSignalIntervalRef, intervals, testSignalCountRef>>
  /\ UNCHANGED <<screenLog, earlyLogs, timeouts, initTimer, now>>
  /\ UNCHANGED <<nextSid, run, stay, pausedBy, forwarded>>

\* destroy() of the last initScreenLog call of instance h, called as
\* window.screenLog.destroy() or through a handle the page kept
destroy(h) ==
  /\ closures[h].made
  /\ console' = closures[h].saved
  /\ closures' = [closures EXCEPT ![h].destroyed = TRUE]
  /\ panel' = FALSE
  /\ content' = <<>>
  /\ headerCount' = 0
  /\ IF h = "A"
       THEN /\ isInitializedRef' = FALSE
            /\ logElementRef' = FALSE
            /\ UNCHANGED other
       ELSE /\ other' = [other EXCEPT !.isInitialized = FALSE,
                                      !.logElement = FALSE]
            /\ UNCHANGED <<isInitializedRef, logElementRef>>
  /\ throttleTimeoutRef' = NoTimeout
  /\ lastSub' = <<>>
  /\ UNCHANGED <<props, clipboard, rendered, ui>>
  /\ UNCHANGED <<throttleConfigRef, lastLogTimeRef, pendingLogsRef,
                 testSignalIntervalRef, intervals, testSignalCountRef>>
  /\ UNCHANGED <<screenLog, earlyLogs, timeouts, initTimer, now>>
  /\ UNCHANGED <<nextSid, run, stay, pausedBy, forwarded>>

\* ------------------------------------------------------------- copyLogs
\* copyLogs() from the Copy button or Ctrl+Shift+C where navigator.clipboard
\* exists: writeText is started, its promise settles later
copyLogs ==
  /\ logElementRef
  /\ clipboard < MaxCopies
  /\ clipboard' = clipboard + 1
  /\ UNCHANGED <<props, rendered, ui, refs, intervals, globals, sinks, panel, history>>

\* copyLogs() where navigator.clipboard is missing: execCommand("copy")
\* inside try/catch; threw = it raised an exception
copyLogsFallback(threw) ==
  /\ logElementRef
  /\ Commit(screenLogLog(Cur, IF threw THEN MsgCopyFail ELSE MsgCopied))
  /\ LogFrame
  /\ UNCHANGED <<testSignalIntervalRef, intervals, testSignalCountRef>>

\* the then / catch callback of a writeText promise
ClipboardSettle(ok) ==
  /\ clipboard > 0
  /\ clipboard' = clipboard - 1
  /\ Commit(screenLogLog(Cur, IF ok THEN MsgCopied ELSE MsgCopyFail))
  /\ UNCHANGED <<props, rendered, ui, throttleConfigRef, isInitializedRef,
                 pendingLogsRef, throttleTimeoutRef, testSignalIntervalRef, intervals,
                 testSignalCountRef, console, screenLog, sinks, timeouts,
                 initTimer, now, run, pausedBy>>

Next ==
  \/ \E t \in Offsets : AdvanceTime(t)
  \/ copyLogs
  \/ \E threw \in BOOLEAN : copyLogsFallback(threw) /\ Bounded
  \/ \E ok \in BOOLEAN : ClipboardSettle(ok) /\ Bounded
  \/ \E kind \in Kinds, text \in CallArgs : ConsoleCall(kind, text) /\ Bounded
  \/ \E kind \in Kinds, text \in CallArgs :
       ScreenLogCall(kind, text) /\ Bounded
  \/ toggleThrottling
  \/ StatusTimerFire /\ Bounded
  \/ TestSignalFire /\ Bounded
  \/ \E query \in SearchQueries : handleSearchChange(query)
  \/ PauseButton
  \/ CtrlP
  \/ ClearButton
  \/ ConsoleClear
  \/ CtrlX /\ Bounded
  \/ toggleVisibility
  \/ InitTimerFire /\ Bounded
  \/ OtherInitTimerFire /\ Bounded
  \/ \E h \in Instances : destroy(h)

Spec == Init /\ [][Next]_vars

\* --------------------------------------------------- the controller alone
\* The operations that write throttleConfigRef, the clock and the status
\* timeouts.
NextCtl ==
  \/ \E t \in Offsets : AdvanceTime(t)
  \/ toggleThrottling
  \/ StatusTimerFire
  \/ \E query \in SearchQueries : handleSearchChange(query)
  \/ PauseButton
  \/ CtrlP

SpecCtl == Init /\ [][NextCtl]_vars

\* ------------------------------------------ the controller and the sink
\* The component without the early-capture module (dev-screen-logger.tsx),
\* alone on the page: attach, detach, the entry points, the gate and what
\* opens and closes it.
MaxTimersLog == 1        \* status-message timeouts pending at once
QueriesLog   == {"", "a"}

\* Test signals are off (enableTesting = false): the interval is one more
\* caller of window.screenLog.log.
InitLog ==
  Init /\ ~earlyLogsLoaded /\ ~enableTesting /\ initiallyVisible
       /\ ~other.initTimer

NextLog ==
  \/ \E t \in Offsets : AdvanceTime(t)
  \/ InitTimerFire /\ Bounded
  \/ destroy("A")
  \/ \E kind \in Kinds, text \in AppTexts : ConsoleCall(kind, text) /\ Bounded
  \/ \E kind \in Kinds, text \in AppTexts :
       ScreenLogCall(kind, text) /\ Bounded
  \/ Len(timeouts) < MaxTimersLog /\ toggleThrottling
  \/ StatusTimerFire /\ Bounded
  \/ \E query \in QueriesLog : handleSearchChange(query)
  \/ PauseButton
  \/ ClearButton
  \/ ConsoleClear

SpecLog == InitLog /\ [][NextLog]_vars

\* ------------------------------------------------- attach and destroy
\* The life of the sink on a page without the early-capture module: the
\* init timers of A and of a second instance, destroy through any handle,
\* re-attach after a change of isVisible, calls whose argument cannot be
\* serialised, the toggle with its status timeout and the test signals.
MaxTimersLife == 1       \* status-message timeouts pending at once
KindsLife     == {"log", "error"}

InitLife == Init /\ ~earlyLogsLoaded /\ initiallyVisible

NextLife ==
  \/ \E t \in Offsets : AdvanceTime(t)
  \/ InitTimerFire /\ Bounded
  \/ OtherInitTimerFire /\ Bounded
  \/ \E h \in Instances : destroy(h)
  \/ toggleVisibility
  \/ \E kind \in KindsLife, text \in CallArgs :
       ConsoleCall(kind, text) /\ Bounded
  \/ \E kind \in KindsLife, text \in CallArgs :
       ScreenLogCall(kind, text) /\ Bounded
  \/ Len(timeouts) < MaxTimersLife /\ toggleThrottling
  \/ StatusTimerFire /\ Bounded
  \/ TestSignalFire /\ Bounded

SpecLife == InitLife /\ [][NextLife]_vars

\* ------------------------------------------------------ early capture
\* A page that loads early-logs.ts: the page logs before the sink attaches,
\* the sink attaches and replays, is destroyed and attaches again after a
\* change of isVisible.  The first MaxFree captured entries are free, the
\* later ones repeat them in a cycle; nothing is logged once the sink was
\* attached.
MaxCaptured  == 200      \* entries captured before the first attach
MaxFree      == 2        \* captured entries whose kind is chosen freely
MaxSubsEarly == 206      \* entries submitted to genericLogger in one run

InitEarly == /\ Init
             /\ earlyLogsLoaded /\ ~enableTesting /\ initiallyVisible
             /\ ~other.initTimer

BoundedEarly == nextSid' <= MaxSubsEarly + 1

\* console.<kind>(text) before the first attach
EarlyCall(kind, text) ==
  LET n == Len(earlyLogs)
  IN /\ screenLog = NoSink
     /\ n < MaxCaptured
     /\ n >= MaxFree => /\ kind = earlyLogs[n - MaxFree + 1].type
                        /\ text = earlyLogs[n - MaxFree + 1].text
     /\ ConsoleCall(kind, text)

NextEarly ==
  \/ \E kind \in KindsLife, text \in AppTexts : EarlyCall(kind, text)
  \/ InitTimerFire /\ BoundedEarly
  \/ destroy("A")
  \/ toggleVisibility

SpecEarly == InitEarly /\ [][NextEarly]_vars

\* ------------------------------------------------- replay and the gate
\* A page that loads early-logs.ts and captures a few entries of any kind
\* while the controller is toggled, before the sink attaches and between
\* a destroy and the next attach.
MaxCapturedReplay == 2   \* entries captured before the first attach
MaxSubsReplay     == 12  \* entries submitted to genericLogger in one run
MaxTimersReplay   == 1   \* status-message timeouts pending at once

\* what the page logs before the attach: a text of its own or a text that
\* reads like a separator of the replay
CaptureTexts == AppTexts \cup {SepStart, SepEnd}
KindsReplay  == {"log", "warn"}

InitReplay == /\ Init
              /\ earlyLogsLoaded /\ ~enableTesting /\ initiallyVisible
              /\ ~other.initTimer

BoundedReplay == nextSid' <= MaxSubsReplay + 1

\* console.<kind>(text) before the first attach
CaptureCall(kind, text) ==
  /\ screenLog = NoSink
  /\ Len(earlyLogs) < MaxCapturedReplay
  /\ ConsoleCall(kind, text)

NextReplay ==
  \/ \E t \in Offsets : AdvanceTime(t)
  \/ \E kind \in KindsReplay, text \in CaptureTexts : CaptureCall(kind, text)
  \/ InitTimerFire /\ BoundedReplay
  \/ destroy("A")
  \/ toggleVisibility
  \/ Len(timeouts) < MaxTimersReplay /\ toggleThrottling
  \/ StatusTimerFire /\ BoundedReplay

SpecReplay == InitReplay /\ [][NextReplay]_vars

\* ------------------------------------------------- status messages
\* The Throttle button of an attached panel pressed at a cadence of 50 ms
\* or faster, and the status timeouts of the presses.
MaxTimersStatus == 2     \* status-message timeouts pending at once
MaxSubsStatus   == 6     \* entries submitted to genericLogger in one run
OffsetsStatus   == {50, 100, 150, 200, 250}

InitStatus == /\ Init
              /\ ~earlyLogsLoaded /\ ~enableTesting /\ initiallyVisible
              /\ ~other.initTimer

BoundedStatus == nextSid' <= MaxSubsStatus + 1

\* onClick of the Throttle button of the panel
ThrottleButton ==
  /\ logElementRef /\ panel
  /\ Len(timeouts) < MaxTimersStatus
  /\ toggleThrottling

NextStatus ==
  \/ \E t \in OffsetsStatus : AdvanceTime(t)
  \/ InitTimerFire /\ BoundedStatus
  \/ ThrottleButton
  \/ StatusTimerFire /\ BoundedStatus
  \/ \E kind \in KindsLife, text \in AppTexts :
       ConsoleCall(kind, text) /\ BoundedStatus

SpecStatus == InitStatus /\ [][NextStatus]_vars

\* ------------------------------------------------- unserialisable values
\* screen-logger.tsx attached on a page whose calls carry plain texts and
\* objects that refer to themselves.
InitSerial == /\ Init
              /\ earlyLogsLoaded /\ ~enableTesting /\ initiallyVisible
              /\ ~other.initTimer

NextSerial ==
  \/ InitTimerFire /\ Bounded
  \/ destroy("A")
  \/ toggleVisibility
  \/ \E kind \in KindsLife, text \in CallArgs :
       ConsoleCall(kind, text) /\ Bounded
  \/ \E kind \in KindsLife, text \in CallArgs :
       ScreenLogCall(kind, text) /\ Bounded
  \/ PauseButton

SpecSerial == InitSerial /\ [][NextSerial]_vars

\* ------------------------------------------------------------ copy
\* An attached sink whose Copy button is used while the controller is
\* paused and resumed and the sink is destroyed.
MaxSubsCopy == 4         \* entries submitted to genericLogger in one run

InitCopy == /\ Init
            /\ ~enableTesting /\ initiallyVisible /\ ~other.initTimer

BoundedCopy == nextSid' <= MaxSubsCopy + 1 /\ Len(earlyLogs') <= MaxEarly

NextCopy ==
  \/ InitTimerFire /\ BoundedCopy
  \/ destroy("A")
  \/ PauseButton
  \/ copyLogs
  \/ \E threw \in BOOLEAN : copyLogsFallback(threw) /\ BoundedCopy
  \/ \E ok \in BOOLEAN : ClipboardSettle(ok) /\ BoundedCopy

SpecCopy == InitCopy /\ [][NextCopy]_vars

\* ------------------------------------------------------------ classifier
\* formatLogText of screen-logger.tsx.  A text is the sequence of its
\* characters.  The texts met below are single-line, their only white
\* space is the space character, and their numerals have at most 15
\* digits and neither exponent nor radix prefix.
Digits     == {"0", "1", "2", "3", "4", "5", "6", "7", "8", "9"}    \* \d
Letters    == {"a", "b", "c", "d", "e", "f", "g", "h", "i", "j", "k", "l",
               "m", "n", "o", "p", "q", "r", "s", "t", "u", "v", "w", "x",
               "y", "z",
               "A", "B", "C", "D", "E", "F", "G", "H", "I", "J", "K", "L",
               "M", "N", "O", "P", "Q", "R", "S", "T", "U", "V", "W", "X",
               "Y", "Z"}                                            \* a-zA-Z
WordChars  == Letters \cup Digits \cup {"_"}                        \* \w
WhiteSpace == {" "}                                                 \* \s

T_null      == <<"n", "u", "l", "l">>
T_undefined == <<"u", "n", "d", "e", "f", "i", "n", "e", "d">>
T_activePresetId   == <<"a", "c", "t", "i", "v", "e", "P", "r", "e", "s",
                        "e", "t", "I", "d", ":">>
T_currentPatchName == <<"c", "u", "r", "r", "e", "n", "t", "P", "a", "t",
                        "c", "h", "N", "a", "m", "e", ":">>

ColNumber     == "#5AAAFA"
ColBracketed  == "#9B8FFF"   \* bold: identifier in brackets, module name
ColProperty   == "#FC8A58"   \* property name, parameter, regular string
ColIdentifier == "#FFC16C"   \* identifier, action name, other value
ColBoolean    == "#C792EA"
ColNull       == "#82AAFF"
ColUndefined  == "#A9B7C6"
ColSummary    == "#4dabf7"   \* bold: summary of a details element

PreviewItems == 3     \* Math.min(arg.length, 3)
PreviewChars == 10    \* String(val).substring(0, 10)
PreviewMax   == 100   \* preview.length > 100

\* the values of JavaScript that are logged: typeof, and the payload of
\* that type.  A structured value has type "object" and the items
\* [key, val], the items of an array without key; null has its own tag.
Value(type) ==
  [type |-> type, num |-> 0, nan |-> FALSE, bool |-> FALSE, text |-> <<>>,
   isArray |-> FALSE, items |-> <<>>]
StringV(t) == [Value("string") EXCEPT !.text = t]

SetMin(S) == CHOOSE x \in S : \A y \in S : x <= y
SetMax(S) == CHOOSE x \in S : \A y \in S : x >= y
AllIn(t, S) == \A i \in DOMAIN t : t[i] \in S
Drop(t, n) == SubSeq(t, n + 1, Len(t))
Take(t, n) == SubSeq(t, 1, IF n < Len(t) THEN n ELSE Len(t))
HasPrefix(t, p) == Len(t) >= Len(p) /\ SubSeq(t, 1, Len(p)) = p
\* length of the longest prefix of t made of characters of S, and of
\* characters outside S
LeadIn(t, S) ==
  SetMax({n \in 0..Len(t) : \A i \in 1..n : t[i] \in S})
LeadOut(t, S) ==
  SetMax({n \in 0..Len(t) : \A i \in 1..n : t[i] \notin S})

\* String.prototype.trim
trim(t) ==
  LET ink == {i \in DOMAIN t : t[i] \notin WhiteSpace}
  IN IF ink = {} THEN <<>> ELSE SubSeq(t, SetMin(ink), SetMax(ink))

\* String(n) of a natural number
RECURSIVE natText(_)
natText(n) ==
  LET digit(d) == <<"0", "1", "2", "3", "4", "5", "6", "7", "8", "9">>[d + 1]
  IN IF n < 10 THEN <<digit(n)>>
     ELSE Append(natText(n \div 10), digit(n % 10))

\* String(value) of a primitive
String(value) ==
  CASE value.type = "number" ->
         IF value.nan THEN <<"N", "a", "N">>
         ELSE IF value.num < 0 THEN <<"-">> \o natText(0 - value.num)
         ELSE natText(value.num)
    [] value.type = "string" -> value.text
    [] value.type = "boolean" -> IF value.bool THEN <<"t", "r", "u", "e">>
                                 ELSE <<"f", "a", "l", "s", "e">>
    [] value.type = "null" -> T_null
    [] value.type = "undefined" -> T_undefined

\* !isNaN(Number(part)) && String(Number(part)) === part: part is the
\* text that String gives for a number
numberRoundTrips(part) ==
  LET IntText(t) ==
        t # <<>> /\ AllIn(t, Digits) /\ (Len(t) = 1 \/ t[1] # "0")
      FractionText(t) ==
        t # <<>> /\ AllIn(t, Digits) /\ t[Len(t)] # "0"
      DecimalText(t) ==
        \E i \in DOMAIN t :
          /\ t[i] = "."
          /\ IntText(SubSeq(t, 1, i - 1))
          /\ FractionText(Drop(t, i))
          /\ ~(SubSeq(t, 1, i - 1) = <<"0">>
                /\ LeadIn(Drop(t, i), {"0"}) >= 6)
      UnsignedText(t) ==
        \/ IntText(t) \/ DecimalText(t)
        \/ t = <<"I", "n", "f", "i", "n", "i", "t", "y">>
  IN \/ UnsignedText(part)
     \/ /\ Len(part) >= 2 /\ part[1] = "-"
        /\ UnsignedText(Tail(part)) /\ Tail(part) # <<"0">>

\* /^\d+$/.test(word)
allDigits(word) == word # <<>> /\ AllIn(word, Digits)

\* /^-?\d+(\.\d+)?$/.test(part.text)
decimalShape(t) ==
  LET u == IF t # <<>> /\ t[1] = "-" THEN Tail(t) ELSE t
  IN \/ allDigits(u)
     \/ \E i \in DOMAIN u :
          u[i] = "." /\ allDigits(SubSeq(u, 1, i - 1)) /\ allDigits(Drop(u, i))

\* the nodes appended to the content container: a span with its colour
\* or a text node
Span(color, bold, text) ==
  [node |-> "span", color |-> color, bold |-> bold, text |-> text]
TextNode(text) ==
  [node |-> "text", color |-> "", bold |-> FALSE, text |-> text]

\* formatPrimitive(value)
formatPrimitive(value) ==
  CASE value.type = "number" -> Span(ColNumber, FALSE, String(value))
    [] value.type = "string" ->
         LET v == value.text
         IN IF Len(v) >= 2 /\ v[1] = "[" /\ v[Len(v)] = "]"
            THEN Span(ColBracketed, TRUE, v)
            ELSE IF Len(v) >= 2 /\ v[Len(v)] = ":"
                    /\ AllIn(SubSeq(v, 1, Len(v) - 1), WordChars)
            THEN Span(ColProperty, FALSE, v)
            ELSE IF v # <<>> /\ v[1] \in Letters
                    /\ AllIn(Tail(v), Letters \cup Digits)
            THEN Span(ColIdentifier, FALSE, v)
            ELSE Span(ColProperty, FALSE, v)
    [] value.type = "boolean" -> Span(ColBoolean, FALSE, String(value))
    [] value.type = "null" -> Span(ColNull, FALSE, T_null)
    [] value.type = "undefined" -> Span(ColUndefined, FALSE, T_undefined)

\* the preview of one element or property value
previewOf(val) ==
  IF val.type = "object"
  THEN IF val.isArray THEN <<"A", "r", "r", "a", "y">>
       ELSE <<"O", "b", "j", "e", "c", "t">>
  ELSE Take(String(val), PreviewChars)

\* the previews of the first elements, joined by ", "
RECURSIVE previewItems(_, _, _)
previewItems(arg, i, n) ==
  IF i > n THEN <<>>
  ELSE (IF arg.isArray THEN <<>> ELSE arg.items[i].key \o <<":", " ">>)
       \o previewOf(arg.items[i].val)
       \o (IF i < n THEN <<",", " ">> ELSE <<>>)
       \o previewItems(arg, i + 1, n)

\* the summary text of a structured value
preview(arg) ==
  LET len  == Len(arg.items)
      n    == IF len < PreviewItems THEN len ELSE PreviewItems
      more == IF len > PreviewItems THEN <<",", " ", ".", ".", ".">>
              ELSE <<>>
      p    == IF arg.isArray
              THEN <<"A", "r", "r", "a", "y", "(">> \o natText(len)
                   \o <<")", " ", "[">>
                   \o previewItems(arg, 1, n) \o more \o <<"]">>
              ELSE <<"{">> \o previewItems(arg, 1, n) \o more \o <<"}">>
  IN IF Len(p) > PreviewMax
     THEN SubSeq(p, 1, PreviewMax - 3) \o <<".", ".", ".">>
     ELSE p

\* text.match(commonLogRegex):
\* /^\[([^\]]+)\]\s+(\S+)(?:\s+(\S+))?(?:\s+(.+))?$/
commonLogRegex(text) ==
  LET NoMatch ==
        [matched |-> FALSE, moduleName |-> <<>>, actionName |-> <<>>,
         paramName |-> <<>>, restOfMessage |-> <<>>]
      close == {i \in DOMAIN text : text[i] = "]"}
      j     == SetMin(close)                  \* the bracket that closes
      t1    == Drop(text, j)
      w0    == LeadIn(t1, WhiteSpace)
      t2    == Drop(t1, w0)
      m     == LeadOut(t2, WhiteSpace)        \* the action, as long as
      R     == Drop(t2, m)                    \* it can be
      w1    == LeadIn(R, WhiteSpace)
      R1    == Drop(R, w1)
      p     == LeadOut(R1, WhiteSpace)        \* the parameter
      R2    == Drop(R1, p)
      w2    == LeadIn(R2, WhiteSpace)
      R3    == Drop(R2, w2)
      M(param, rest) ==
        [matched |-> TRUE, moduleName |-> SubSeq(text, 2, j - 1),
         actionName |-> Take(t2, m), paramName |-> param,
         restOfMessage |-> rest]
  IN IF text = <<>> \/ text[1] # "[" \/ close = {} THEN NoMatch
     ELSE IF j < 3 \/ w0 = 0 \/ m = 0 THEN NoMatch
     ELSE IF R = <<>> THEN M(<<>>, <<>>)
     ELSE IF R1 = <<>>                        \* only white space follows
          THEN IF w1 >= 2 THEN M(<<>>, <<R[w1]>>) ELSE NoMatch
     ELSE IF R2 = <<>> THEN M(Take(R1, p), <<>>)
     ELSE IF R3 # <<>> THEN M(Take(R1, p), R3)
     ELSE IF w2 >= 2 THEN M(Take(R1, p), <<R2[w2]>>)
     ELSE M(<<>>, R1)                         \* no parameter: the rest
                                              \* takes the word and the
                                              \* space after it

\* restOfMessage.match(patchSelectMenuPattern):
\* /^activePresetId:\s*(.+?),\s*currentPatchName:\s*(.+)$/
patchSelectMenuPattern(rest) ==
  LET NoPatch == [matched |-> FALSE, id |-> <<>>, name |-> <<>>]
      n  == Len(rest)
      k  == Len(T_activePresetId)
      w  == LeadIn(Drop(rest, k), WhiteSpace)
      \* what follows the comma after rest[e]
      after(e) == LET r == Drop(rest, e + 1)
                  IN Drop(r, LeadIn(r, WhiteSpace))
      Ok(s, e) == /\ s <= e /\ e < n /\ rest[e + 1] = ","
                  /\ HasPrefix(after(e), T_currentPatchName)
                  /\ Len(after(e)) > Len(T_currentPatchName)
      cands == {c \in (0..w) \X (1..n) : Ok(k + c[1] + 1, c[2])}
      a  == SetMax({c[1] : c \in cands})          \* \s* takes all it can
      e  == SetMin({c[2] : c \in {d \in cands : d[1] = a}})  \* (.+?) the
      r3 == Drop(after(e), Len(T_currentPatchName))          \* least
      lw == LeadIn(r3, WhiteSpace)
  IN IF ~HasPrefix(rest, T_activePresetId) THEN NoPatch
     ELSE IF cands = {} THEN NoPatch
     ELSE [matched |-> TRUE, id |-> SubSeq(rest, k + a + 1, e),
           name |-> IF lw < Len(r3) THEN Drop(r3, lw)
                    ELSE <<r3[Len(r3)]>>]

\* the simple parser for property:value pairs
RECURSIVE parsePairs(_, _, _, _, _)
parsePairs(rest, i, parts, currentPart, inValue) ==
  IF i > Len(rest)
  THEN IF trim(currentPart) # <<>>
       THEN Append(parts, [type |-> IF inValue THEN "value" ELSE "property",
                           text |-> trim(currentPart)])
       ELSE parts
  ELSE IF rest[i] = ":" /\ ~inValue
  THEN parsePairs(rest, i + 1,
                  parts \o <<[type |-> "property", text |-> trim(currentPart)],
                             [type |-> "separator", text |-> <<":", " ">>]>>,
                  <<>>, TRUE)
  ELSE IF rest[i] = "," /\ inValue
  THEN parsePairs(rest, i + 1,
                  parts \o <<[type |-> "value", text |-> trim(currentPart)],
                             [type |-> "comma", text |-> <<",", " ">>]>>,
                  <<>>, FALSE)
  ELSE parsePairs(rest, i + 1, parts, Append(currentPart, rest[i]), inValue)

\* the rendering of one part of the parser
partNode(part) ==
  IF part.type = "property" THEN Span(ColProperty, FALSE, part.text)
  ELSE IF part.type = "value"
  THEN Span(IF part.text = T_null THEN ColNull
            ELSE IF part.text = T_undefined THEN ColUndefined
            ELSE IF decimalShape(part.text) THEN ColNumber
            ELSE ColIdentifier, FALSE, part.text)
  ELSE TextNode(part.text)

\* t.split(/\s+/), and with keep t.split(/(\s+)/): the words, and the
\* white space between them
RECURSIVE split(_, _)
split(t, keep) ==
  LET n == LeadOut(t, WhiteSpace)
      r == Drop(t, n)
      w == LeadIn(r, WhiteSpace)
  IN IF w = 0 THEN <<Take(t, n)>>
     ELSE <<Take(t, n)>> \o (IF keep THEN <<Take(r, w)>> ELSE <<>>)
          \o split(Drop(r, w), keep)

\* words.forEach of the remainder
wordNodes(words) ==
  [i \in 1..(2 * Len(words) - 1) |->
     IF i % 2 = 0 THEN TextNode(<<" ">>)
     ELSE LET word == words[(i + 1) \div 2]
          IN IF allDigits(word) THEN Span(ColNumber, FALSE, word)
             ELSE formatPrimitive(StringV(word))]

\* the nodes of restOfMessage
restNodes(rest) ==
  LET patchMatch == patchSelectMenuPattern(rest)
      patchValue(v) ==
        Span(IF v = T_null THEN ColNull ELSE ColIdentifier, FALSE, v)
  IN IF patchMatch.matched
     THEN <<Span(ColProperty, FALSE, T_activePresetId \o <<" ">>),
            patchValue(patchMatch.id),
            TextNode(<<",", " ">>),
            Span(ColProperty, FALSE, T_currentPatchName \o <<" ">>),
            patchValue(patchMatch.name)>>
     ELSE IF \E i \in DOMAIN rest : rest[i] = ":"
     THEN LET parts == parsePairs(rest, 1, <<>>, <<>>, FALSE)
          IN [i \in DOMAIN parts |-> partNode(parts[i])]
     ELSE IF allDigits(rest) THEN <<Span(ColNumber, FALSE, rest)>>
     ELSE wordNodes(split(rest, FALSE))

\* parts.forEach of the text that does not match commonLogRegex
partNodes(parts) ==
  [i \in DOMAIN parts |->
     IF trim(parts[i]) = <<>> THEN TextNode(parts[i])
     ELSE IF numberRoundTrips(parts[i])
     THEN Span(ColNumber, FALSE, parts[i])
     ELSE formatPrimitive(StringV(parts[i]))]

\* primitiveNodes that leaves the parameter word to the remainder
primitiveNodes_NoParam(arg) ==
  LET text  == String(arg)
      match == commonLogRegex(text)
      rest  == IF match.paramName = <<>> THEN match.restOfMessage
               ELSE IF match.restOfMessage = <<>> THEN match.paramName
               ELSE match.paramName \o <<" ">> \o match.restOfMessage
  IN IF match.matched
     THEN <<Span(ColBracketed, TRUE,
                 <<"[">> \o match.moduleName \o <<"]", " ">>),
            Span(ColIdentifier, FALSE, match.actionName \o <<" ">>)>>
          \o (IF rest # <<>> THEN restNodes(rest) ELSE <<>>)
     ELSE partNodes(split(text, TRUE))

\* the nodes that formatLogText(content, arg, index, argsLength) appends
\* for a primitive, before the separator
primitiveNodes(arg) ==
  LET text  == String(arg)
      match == commonLogRegex(text)
  IN IF match.matched
     THEN <<Span(ColBracketed, TRUE,
                 <<"[">> \o match.moduleName \o <<"]", " ">>),
            Span(ColIdentifier, FALSE, match.actionName \o <<" ">>)>>
          \o (IF match.paramName # <<>>
              THEN <<Span(ColProperty, FALSE, match.paramName \o <<" ">>)>>
              ELSE <<>>)
          \o (IF match.restOfMessage # <<>>
              THEN restNodes(match.restOfMessage)
              ELSE <<>>)
     ELSE partNodes(split(text, TRUE))

\* formatLogText(content, arg, index, argsLength): the nodes appended to
\* content, each marked with the number of its argument and with sep, the
\* node being the one appended at the end of the primitive branch; a
\* details element is shown by its summary
formatLogText(arg, index, argsLength) ==
  LET Mark(nodes, sep) ==
        [i \in DOMAIN nodes |->
           [node |-> nodes[i].node, color |-> nodes[i].color,
            bold |-> nodes[i].bold, text |-> nodes[i].text,
            arg |-> index + 1, sep |-> sep]]
      details == [node |-> "details", color |-> ColSummary, bold |-> TRUE,
                  text |-> preview(arg)]
  IN IF arg.type = "object"
     THEN Mark(<<details>>, FALSE)
     ELSE Mark(primitiveNodes(arg), FALSE)
          \o (IF index < argsLength - 1
              THEN Mark(<<TextNode(<<" ">>)>>, TRUE)
              ELSE <<>>)

\* args.forEach((arg, index) => formatLogText(content, arg, index,
\* args.length)), from argument i on
RECURSIVE formatEach(_, _)
formatEach(args, i) ==
  IF i > Len(args) THEN <<>>
  ELSE formatLogText(args[i], i - 1, Len(args)) \o formatEach(args, i + 1)

\* the content container that genericLogger builds for one entry
formatEntry ==
  /\ ~rendered.built
  /\ rendered' = [rendered EXCEPT !.nodes = formatEach(rendered.args, 1),
                                  !.built = TRUE]
  /\ UNCHANGED <<props, ui, refs, intervals, globals, sinks, panel, clipboard,
                 history>>

\* -------------------------------------------------- classifier inputs
MaxArgs == 2             \* arguments of one call

S_Auth == <<"[", "A", "u", "t", "h", "]", " ", "l", "o", "g", "i", "n",
           " ", "u", "s", "e", "r", "I", "d", " ", "4", "2">>

\* numbers, booleans, null and undefined; texts of every shape that
\* formatLogText tells apart; objects and arrays, empty, nested and longer
\* than the preview
ArgValues ==
  LET NumberV(n)   == [Value("number") EXCEPT !.num = n]
      NaNV         == [Value("number") EXCEPT !.nan = TRUE]
      BooleanV(b)  == [Value("boolean") EXCEPT !.bool = b]
      ObjectV(its) == [Value("object") EXCEPT !.items = its]
      ArrayV(vals) ==
        [Value("object") EXCEPT
           !.isArray = TRUE,
           !.items = [i \in DOMAIN vals |-> [key |-> <<>>, val |-> vals[i]]]]
  IN {NumberV(42), NumberV(0), NumberV(0 - 5), NaNV,
      BooleanV(TRUE), BooleanV(FALSE), Value("null"), Value("undefined"),
      StringV(<<>>),
      StringV(<<"a", "b">>),
      StringV(<<"F", "o", "o", "9">>),
      StringV(<<"k", "e", "y", ":">>),
      StringV(<<"[", "x", "]">>),
      StringV(<<"a", "b", " ", "c", "-", "d">>),
      StringV(<<"a", "b", " ">>),
      StringV(<<"4", "2">>),
      StringV(<<"0", "0", "7">>),
      StringV(<<"1", ".", "5">>),
      StringV(<<"t", "r", "u", "e">>),
      StringV(S_Auth),
      StringV(<<"[", "m", "]", " ", "r", "u", "n">>),
      StringV(<<"[", "m", "]", " ", "s", "e", "t", " ", "x", " ",
                "a", ":", " ", "1", ",", " ", "b", ":", " ", "n", "u", "l",
                "l">>),
      StringV(<<"[", "P", "]", " ", "T", " ", "R", " ">>
              \o T_activePresetId \o <<" ", "n", "u", "l", "l", ",", " ">>
              \o T_currentPatchName \o <<" ", "F", "o", "o">>),
      StringV(<<"[", "m", "]", " ", "g", "o", " ", "t", "o", " ",
                "[", "y", "]", " ", "7", " ", "u", "p">>),
      ObjectV(<<>>), ArrayV(<<>>),
      ObjectV(<<[key |-> <<"a", "b">>, val |-> NumberV(42)],
                [key |-> <<"c">>, val |-> ArrayV(<<>>)]>>),
      ArrayV(<<NumberV(42), StringV(S_Auth), Value("null"), ObjectV(<<>>)>>)}
ArgLists  == UNION {[1..n -> ArgValues] : n \in 0..MaxArgs}

\* screen-logger.tsx about to render the arguments of one call
InitFormat == /\ InitPage
              /\ earlyLogsLoaded /\ ~enableTesting /\ initiallyVisible
              /\ ~other.initTimer
              /\ \E args \in ArgLists :
                   rendered = [args |-> args, nodes |-> <<>>,
                               built |-> FALSE]

NextFormat == formatEntry

SpecFormat == InitFormat /\ [][NextFormat]_vars

\* ================================================================ claims
ThrottledMode(c) == c.throttled /\ ~c.paused

Snapshot(c) == c["_previousState"]

\* ------------------------------------------------------------------- C1
\* C1: starting from Normal, successive toggles with no other controller
\* operation in between visit Normal, Throttled(250), Throttled(500),
\* Throttled(1000), Paused, Normal, in that order and with no other mode.
C1_ToggleCycle ==
  run # <<>> =>
    /\ run[1] = "Normal"
    /\ run[Len(run)] = ModeOf(throttleConfigRef)
    /\ \A i \in DOMAIN run : run[i] = Cycle[((i - 1) % Len(Cycle)) + 1]

C1_Witness ==
  /\ Len(run) = Len(Cycle) + 1
  /\ run[1] = "Normal"
  /\ run[Len(run)] = "Normal"
  /\ Normal(throttleConfigRef)

\* ------------------------------------------------------------------- C2
\* C2 as written: six consecutive toggles from Normal return the controller
\* to Normal.
C2_SixToggles ==
  (Len(run) = 7 /\ run[1] = "Normal") => Normal(throttleConfigRef)

\* C2: five consecutive toggles from Normal return the controller to
\* Normal with delay 250 and no snapshot.
C2_FiveToggles ==
  (Len(run) = 6 /\ run[1] = "Normal") =>
    throttleConfigRef =
      [throttled |-> FALSE, paused |-> FALSE, delay |-> InitialDelay]

C2_Witness ==
  /\ Len(run) = 6
  /\ run[1] = "Normal"
  /\ run[5] = "Paused"
  /\ throttleConfigRef.delay = InitialDelay
  /\ ~isLoggingThrottled

\* ------------------------------------------------------------------- C3
\* C3: an entry submitted to the sink while the controller is paused is
\* discarded: it is not rendered, not counted and not buffered.
C3_PausedDiscards ==
  [][(throttleConfigRef.paused /\ nextSid' > nextSid) =>
       /\ content' = content
       /\ headerCount' = headerCount
       /\ pendingLogsRef' = <<>>]_vars

C3_Witness ==
  /\ logElementRef
  /\ throttleConfigRef.paused
  /\ content # <<>>
  /\ Len(lastSub) = 1
  /\ ~lastSub[1].adm
  /\ content[Len(content)].sid < nextSid - 1

\* ------------------------------------------------------------------- C4
\* the last two submissions to the attached sink during the current stay
\* in Throttled(d): their distance and how many of them were admitted
Gap == lastSub[2].at - lastSub[1].at

Admissions ==
  (IF lastSub[1].adm THEN 1 ELSE 0) + (IF lastSub[2].adm THEN 1 ELSE 0)

\* C4 as written: of two entries submitted in Throttled(d), exactly one is
\* admitted if they are less than d apart and both if they are at least d
\* apart.
C4_ExactlyOne ==
  (ThrottledMode(throttleConfigRef) /\ logElementRef /\ Len(lastSub) = 2) =>
    /\ Gap < throttleConfigRef.delay => Admissions = 1
    /\ Gap >= throttleConfigRef.delay => Admissions = 2

\* C4: of two consecutive entries submitted in Throttled(d), at most one is
\* admitted if they are less than d apart, and if the first is admitted the
\* second is admitted exactly when it comes at least d after the first.
C4_AtMostOne ==
  (ThrottledMode(throttleConfigRef) /\ logElementRef /\ Len(lastSub) = 2) =>
    /\ Gap < throttleConfigRef.delay => Admissions <= 1
    /\ lastSub[1].adm =>
         (lastSub[2].adm <=> Gap >= throttleConfigRef.delay)

C4_Witness ==
  /\ ThrottledMode(throttleConfigRef)
  /\ logElementRef
  /\ Len(lastSub) = 2
  /\ lastSub[1].adm
  /\ lastSub[2].adm
  /\ Gap >= throttleConfigRef.delay
  /\ Len(content) >= 2

C6_NoReplay ==
  /\ [](pendingLogsRef = <<>>)
  /\ [][\A i \in DOMAIN content' :
          \/ content'[i].sid >= nextSid
          \/ \E j \in DOMAIN content : content[j] = content'[i]]_vars

C6_Witness ==
  /\ Normal(throttleConfigRef)
  /\ \E i \in DOMAIN content :
       /\ i > 1
       /\ content[i].sid > content[i - 1].sid + 1
  /\ pendingLogsRef = <<>>

\* ------------------------------------------------------------------- C7
\* C7: when the search query goes from empty to non-empty and the
\* controller is not paused, {throttled, delay} is saved as the snapshot
\* and the controller becomes Paused; if it is paused already, neither the
\* mode nor the snapshot changes.
C7_SearchStart ==
  [][(searchQuery = "" /\ searchQuery' # "") =>
       IF ~throttleConfigRef.paused
         THEN /\ HasSnapshot(throttleConfigRef')
              /\ Snapshot(throttleConfigRef') =
                   [throttled |-> throttleConfigRef.throttled,
                    delay |-> throttleConfigRef.delay]
              /\ Paused(throttleConfigRef')
              /\ throttleConfigRef'.delay = throttleConfigRef.delay
         ELSE throttleConfigRef' = throttleConfigRef]_vars

C7_Witness ==
  /\ searchQuery = "a"
  /\ HasSnapshot(throttleConfigRef)
  /\ Snapshot(throttleConfigRef) = [throttled |-> TRUE, delay |-> Delay500]
  /\ Paused(throttleConfigRef)

\* ------------------------------------------------------------------- C8
\* C8 as written: when the search query goes from non-empty to empty and a
\* snapshot exists, mode and delay are restored from it and it is cleared;
\* with no snapshot the mode is unchanged.
C8_SearchEnd ==
  [][(searchQuery # "" /\ searchQuery' = "") =>
       IF HasSnapshot(throttleConfigRef)
         THEN /\ ~HasSnapshot(throttleConfigRef')
              /\ ~throttleConfigRef'.paused
              /\ throttleConfigRef'.throttled =
                   Snapshot(throttleConfigRef).throttled
              /\ throttleConfigRef'.delay = Snapshot(throttleConfigRef).delay
         ELSE throttleConfigRef' = throttleConfigRef]_vars

\* ------------------------------------------------------------------- C9
\* C9: a second search-active notification while the controller is paused
\* by the first leaves mode, delay and snapshot as they are, and a
\* search-inactive notification with no snapshot leaves the mode unchanged.
C9_AutoPauseIdempotent ==
  [][/\ (searchQuery # "" /\ searchQuery' # "" /\ searchQuery' # searchQuery)
          => throttleConfigRef' = throttleConfigRef
     /\ (searchQuery # "" /\ searchQuery' = ""
           /\ ~HasSnapshot(throttleConfigRef))
          => throttleConfigRef' = throttleConfigRef]_vars

C9_Witness ==
  /\ searchQuery = "ab"
  /\ Paused(throttleConfigRef)
  /\ HasSnapshot(throttleConfigRef)
  /\ Snapshot(throttleConfigRef).throttled

\* ------------------------------------------------------------------ C10
\* C10 as written: a snapshot is present exactly while the controller is
\* paused because of an auto-pause that has not yet been resolved.
C10_SnapshotIffAutoPaused ==
  HasSnapshot(throttleConfigRef) =>
    throttleConfigRef.paused /\ searchQuery # ""

\* ------------------------------------------------------------------ C11
\* C11 as written: every call of a wrapped console channel or of a
\* window.screenLog entry point reaches the function bound before attach,
\* whatever the controller state and whatever happens while the arguments
\* are rendered.
C11_AlwaysForwarded == forwarded

\* ------------------------------------------------------------------ C12
\* the steps in which instance A is detached: only destroy() clears
\* logElementRef
DestroyStepA == logElementRef /\ ~logElementRef'

\* C12: when destroy() returns, the console channels are bound to the
\* functions saved at attach and no panel is left; calling the channels
\* then submits nothing to a sink and renders nothing.
C12_DestroyRestores ==
  /\ [][DestroyStepA =>
          /\ console' = closures["A"].saved
          /\ ~panel'
          /\ content' = <<>>]_vars
  /\ [][(console = <<>> /\ \E kind \in Kinds, text \in CallArgs :
                              ConsoleCall(kind, text)) =>
          /\ nextSid' = nextSid
          /\ content' = content
          /\ forwarded']_vars

C12_Witness ==
  /\ closures["A"].destroyed
  /\ ~logElementRef
  /\ console = <<>>
  /\ content = <<>>
  /\ nextSid = 3
  /\ screenLog = "A"

\* ------------------------------------------------------------------ C13
\* C13 as written: when destroy() returns, neither the 50 ms status timer
\* of toggleThrottling nor the test-signal interval is outstanding.
C13_NoTimerAfterDestroy ==
  [][DestroyStepA => (timeouts' = <<>> /\ ~testSignalIntervalRef')]_vars

\* ------------------------------------------------------------------ C14
\* C14 as written: a call of destroy() after the first one is a no-op: it
\* leaves the console bindings, the controller and the rendered entries as
\* they were, also when another instance attached in between.
C14_SecondDestroyNoOp ==
  [][\A h \in Instances :
       (closures[h].destroyed /\ destroy(h)) =>
         UNCHANGED <<console, panel, content, headerCount,
                     throttleConfigRef, logElementRef, other>>]_vars

\* ------------------------------------------------------------------ C15
\* C15 as written: at most one sink is attached at a time, the console
\* channels carry at most one sink decorator, and once every instance is
\* destroyed they are the functions bound before the first attach.
C15_SingleLayer ==
  /\ ~(logElementRef /\ other.logElement)
  /\ Len(console) <= 1
  /\ (~logElementRef /\ ~other.logElement) => console = <<>>

\* ------------------------------------------------------------------ C16
\* C16 as written: an attach that follows a destroy starts with the
\* controller in Normal with delay 250 and no snapshot and with no entry
\* of the earlier session in the panel.
C16_CleanReattach ==
  [][(~logElementRef /\ logElementRef' /\ closures["A"].made) =>
       /\ throttleConfigRef' =
            [throttled |-> FALSE, paused |-> FALSE, delay |-> InitialDelay]
       /\ \A i \in DOMAIN content' : content'[i].sid >= nextSid]_vars

FirstAttachStep == ~closures["A"].made /\ closures'["A"].made

\* C18 as written: when the sink attaches in Normal after k entries were
\* captured, 1 <= k <= ReplayCap, none of them a separator, the panel shows
\* after the initial entry exactly the start separator, the k entries in
\* the order of capture and the end separator.
C18_ReplayExact ==
  [][LET k == Len(earlyLogs)
     IN (/\ FirstAttachStep
         /\ ~throttleConfigRef.throttled /\ ~throttleConfigRef.paused
         /\ k >= 1 /\ k <= ReplayCap
         /\ \A i \in 1..k : ~ContainsEarlyLogs(earlyLogs[i].text))
        => /\ Len(content') = k + 3
           /\ content'[1].text = MsgInit
           /\ content'[2].text = SepStart
           /\ \A i \in 1..k : /\ content'[i + 2].kind = earlyLogs[i].type
                               /\ content'[i + 2].text = earlyLogs[i].text
           /\ content'[k + 3].text = SepEnd]_vars

\* ------------------------------------------------------------------ C19
\* C19 as written: when the sink attaches again after a destroy and nothing
\* was captured in between, nothing is replayed: the panel shows the
\* initial entry only.
C19_ReplayOnce ==
  [][(closures["A"].made /\ ~logElementRef /\ logElementRef')
       => \A i \in DOMAIN content' : content'[i].text = MsgInit]_vars

\* ------------------------------------------------------------------ C20
\* C20 as written: the early buffer never holds more entries than the
\* maximum retained count; the only count the capture module names is the
\* one of the replay, ReplayCap.
C20_BufferBounded == Len(earlyLogs) <= ReplayCap

\* ------------------------------------------------------------------ C21
\* C21 as written: once the sink has attached, no step appends to the
\* early buffer: not the attach with its replay, not a call of a
\* window.screenLog entry point, not a call of a wrapped console channel.
C21_BufferFrozen ==
  [][closures'["A"].made => earlyLogs' = earlyLogs]_vars

\* ------------------------------------------------------------------ C22
\* the step in which instance A attaches
AttachStepA == ~logElementRef /\ logElementRef'

\* the entries of the early buffer that are not separators
EarlyData == SelectSeq(earlyLogs, LAMBDA e : ~ContainsEarlyLogs(e.text))

\* C22: a capture appends the entry with its kind whatever the state of
\* the controller; an attach in Normal renders every buffered entry with
\* the kind it was captured with, in the order of capture; an attach while
\* Paused renders nothing, and an attach while Throttled renders at most
\* the one entry the gate admits at that instant, as for live entries.
C22_ReplayThroughGate ==
  /\ [][\A kind \in KindsReplay, text \in CaptureTexts :
          CaptureCall(kind, text) =>
            earlyLogs' = Append(earlyLogs, [type |-> kind, text |-> text])
       ]_vars
  /\ [][(AttachStepA /\ earlyLogs # <<>>
           /\ ~throttleConfigRef.throttled /\ ~throttleConfigRef.paused) =>
          /\ Len(content') = Len(EarlyData) + 3
          /\ \A i \in 1..Len(EarlyData) :
                /\ content'[i + 2].kind = EarlyData[i].type
                /\ content'[i + 2].text = EarlyData[i].text]_vars
  /\ [][(AttachStepA /\ throttleConfigRef.paused) => content' = <<>>]_vars
  /\ [][(AttachStepA /\ throttleConfigRef.throttled
           /\ ~throttleConfigRef.paused) => Len(content') <= 1]_vars

\* the sink attached in Normal and the third entry of the panel is an
\* entry captured as a warning
C22_Witness ==
  /\ logElementRef /\ panel
  /\ Len(content) >= 4
  /\ content[2].text = SepStart
  /\ content[3].kind = "warn" /\ content[3].text = "app"
  /\ earlyLogs[1].type = "warn"

\* ------------------------------------------------------------------ C23
\* C23: whatever the page captured, separators included, an attach renders
\* no separator as data: a separator in the panel is the start separator
\* right after the initial entry or the end separator in the last place,
\* and in Normal with a non-empty buffer both are there.
C23_NoSeparatorAsData ==
  /\ [][AttachStepA =>
          \A i \in DOMAIN content' :
            ContainsEarlyLogs(content'[i].text) =>
              \/ i = 2 /\ content'[i].text = SepStart
              \/ i = Len(content') /\ i > 2 /\ content'[i].text = SepEnd]_vars
  /\ [][(AttachStepA /\ earlyLogs # <<>>
           /\ ~throttleConfigRef.throttled /\ ~throttleConfigRef.paused) =>
          /\ Len(content') >= 3
          /\ content'[2].text = SepStart
          /\ content'[Len(content')].text = SepEnd]_vars

\* the page captured a start separator and then an entry of its own; the
\* sink attached in Normal and rendered the entry right after its own start
\* separator
C23_Witness ==
  /\ logElementRef /\ panel
  /\ Len(earlyLogs) >= 2
  /\ earlyLogs[1].text = SepStart /\ earlyLogs[2].text = "app"
  /\ Len(content) = 4
  /\ content[2].text = SepStart
  /\ content[3].text = "app" /\ content[3].kind = earlyLogs[2].type
  /\ content[4].text = SepEnd

C25_UnserialisableRendered ==
  [][\A kind \in KindsLife :
       (/\ ConsoleCall(kind, Circular)
        /\ console = <<"A">> /\ logElementRef /\ panel
        /\ ~throttleConfigRef.throttled /\ ~throttleConfigRef.paused) =>
         /\ Len(content') = Len(content) + 1
         /\ content'[Len(content')].kind = kind
         /\ forwarded']_vars

\* ------------------------------------------------------------------ C26
\* C26 as written: a failed copy is reported through the sink as one entry
\* of kind error: on an attached sink in Normal the panel gains exactly
\* that entry, and the original channel is reached.
C26_CopyFailureIsError ==
  [][(/\ ClipboardSettle(FALSE) \/ copyLogsFallback(TRUE)
      /\ screenLog = "A" /\ logElementRef /\ panel
      /\ ~throttleConfigRef.throttled /\ ~throttleConfigRef.paused) =>
       /\ Len(content') = Len(content) + 1
       /\ content'[Len(content')].text = MsgCopyFail
       /\ content'[Len(content')].kind = "error"
       /\ forwarded']_vars

C29_TypedCategory ==
  LET TypeColor(type) ==
        CASE type = "number" -> ColNumber
          [] type = "boolean" -> ColBoolean
          [] type = "null" -> ColNull
          [] type = "undefined" -> ColUndefined
      ArgNodes(i) ==
        {k \in DOMAIN rendered.nodes :
           rendered.nodes[k].arg = i /\ ~rendered.nodes[k].sep}
  IN rendered.built =>
       \A i \in DOMAIN rendered.args :
         rendered.args[i].type \in {"number", "boolean", "null", "undefined"}
           => /\ ArgNodes(i) # {}
              /\ \A k \in ArgNodes(i) :
                   /\ rendered.nodes[k].node = "span"
                   /\ rendered.nodes[k].color
                        = TypeColor(rendered.args[i].type)

\* ------------------------------------------------------------------ C30
\* C30: the tokens of the arguments are emitted left to right, with
\* exactly one separator between each two adjacent arguments, after the
\* tokens of the earlier one, and no separator after the last argument,
\* for primitive and structured arguments alike.
C30_OneSeparatorBetween ==
  LET n == Len(rendered.args)
      ArgNodes(i) ==
        {k \in DOMAIN rendered.nodes :
           rendered.nodes[k].arg = i /\ ~rendered.nodes[k].sep}
      Separators(i) ==
        {k \in DOMAIN rendered.nodes :
           rendered.nodes[k].arg = i /\ rendered.nodes[k].sep}
  IN rendered.built =>
       /\ \A k \in 1..(Len(rendered.nodes) - 1) :
            rendered.nodes[k].arg <= rendered.nodes[k + 1].arg
       /\ \A i \in 1..n : ArgNodes(i) # {}
       /\ \A i \in 1..(n - 1) :
            /\ Cardinality(Separators(i)) = 1
            /\ \A k \in ArgNodes(i), j \in Separators(i) : k < j
       /\ Separators(n) = {}

\* ------------------------------------------------------------------ C31
\* C31: the text "[Auth] login userId 42" is rendered as a module token
\* "[Auth] ", an action token "login ", a parameter token "userId " and a
\* value token "42" of the number category, in this order; and every text
\* made of a bracketed module name and one to three or more words
\* separated by single spaces is rendered as module token, action token,
\* parameter token if there is a third word, and tokens that spell the
\* remainder if there is one.
C31_Decomposed ==
  LET nodes == rendered.nodes
      Of(i) == {k \in DOMAIN nodes : nodes[k].arg = i /\ ~nodes[k].sep}
      Is(k, color, bold, text) ==
        /\ k \in DOMAIN nodes
        /\ nodes[k].node = "span" /\ nodes[k].color = color
        /\ nodes[k].bold = bold /\ nodes[k].text = text
      RECURSIVE Spelt(_, _)
      Spelt(from, to) ==
        IF from > to THEN <<>> ELSE nodes[from].text \o Spelt(from + 1, to)
      RECURSIVE Joined(_, _)
      Joined(words, from) ==
        IF from > Len(words) THEN <<>>
        ELSE words[from]
             \o (IF from < Len(words) THEN <<" ">> ELSE <<>>)
             \o Joined(words, from + 1)
      Shaped(words) ==
        /\ Len(words) >= 2
        /\ \A j \in DOMAIN words : words[j] # <<>>
        /\ Len(words[1]) >= 3
        /\ words[1][1] = "[" /\ words[1][Len(words[1])] = "]"
        /\ \A j \in 1..(Len(words[1]) - 1) : words[1][j] # "]"
  IN rendered.built =>
       \A i \in DOMAIN rendered.args :
         LET arg   == rendered.args[i]
             words == split(arg.text, FALSE)
             first == CHOOSE k \in Of(i) : \A h \in Of(i) : k <= h
             last  == CHOOSE k \in Of(i) : \A h \in Of(i) : k >= h
         IN /\ (arg.type = "string" /\ arg.text = S_Auth) =>
                 /\ Cardinality(Of(i)) = 4
                 /\ Is(first, ColBracketed, TRUE,
                       <<"[", "A", "u", "t", "h", "]", " ">>)
                 /\ Is(first + 1, ColIdentifier, FALSE,
                       <<"l", "o", "g", "i", "n", " ">>)
                 /\ Is(first + 2, ColProperty, FALSE,
                       <<"u", "s", "e", "r", "I", "d", " ">>)
                 /\ Is(first + 3, ColNumber, FALSE, <<"4", "2">>)
            /\ (arg.type = "string" /\ Shaped(words)
                  /\ arg.text = Joined(words, 1)) =>
                 /\ Is(first, ColBracketed, TRUE, words[1] \o <<" ">>)
                 /\ Is(first + 1, ColIdentifier, FALSE, words[2] \o <<" ">>)
                 /\ Len(words) = 2 => last = first + 1
                 /\ Len(words) >= 3 =>
                      Is(first + 2, ColProperty, FALSE, words[3] \o <<" ">>)
                 /\ Len(words) = 3 => last = first + 2
                 /\ Len(words) >= 4 =>
                      /\ last >= first + 3
                      /\ Spelt(first + 3, last) = Joined(words, 4)

\* "[Auth] login userId 42" has been rendered, as the second argument
C31_Witness ==
  /\ rendered.built
  /\ Len(rendered.args) = 2
  /\ rendered.args[2].type = "string" /\ rendered.args[2].text = S_Auth
  /\ \E k \in DOMAIN rendered.nodes :
       /\ rendered.nodes[k].arg = 2
       /\ rendered.nodes[k].color = ColNumber
       /\ rendered.nodes[k].text = <<"4", "2">>

\* ------------------------------------------------------------------ C32
\* C32: in every reachable state the controller is in exactly one of
\* Normal, Throttled(250), Throttled(500), Throttled(1000) and Paused; the
\* throttled flag and the paused flag are never both set.
C32_OneMode ==
  /\ ModeOf(throttleConfigRef) \in
       {"Normal", "Throttled(250)", "Throttled(500)", "Throttled(1000)",
        "Paused"}
  /\ ~(throttleConfigRef.throttled /\ throttleConfigRef.paused)

\* ------------------------------------------------------------------ C33
\* C33: from every reachable state in which logging is paused, however
\* the pause was entered, one toggleThrottling yields Normal with delay
\* 250 and no snapshot.
C33_ToggleLeavesPause ==
  [][(toggleThrottling /\ throttleConfigRef.paused) =>
       /\ Normal(throttleConfigRef')
       /\ throttleConfigRef'.delay = InitialDelay
       /\ ~HasSnapshot(throttleConfigRef')]_vars

\* ------------------------------------------------------------------ C34
\* C34: when the search query becomes empty while the controller is paused
\* by a manual action (the toggle cycle, the Pause button or Ctrl+P), it is
\* still paused afterwards.
C34_ManualPauseSurvives ==
  [][(searchQuery # "" /\ searchQuery' = ""
        /\ throttleConfigRef.paused /\ pausedBy = "manual")
       => throttleConfigRef'.paused]_vars

\* ------------------------------------------------------------------ C35
\* C35: while the search query is non-empty the controller is paused, and
\* no step taken during the search adds an entry to the panel; the toggle,
\* the Pause button and Ctrl+P used during the search do not change that.
C35_PausedWhileSearching ==
  /\ [](searchQuery # "" => throttleConfigRef.paused)
  /\ [][(searchQuery # "" /\ searchQuery' # "")
         => Len(content') <= Len(content)]_vars

\* ------------------------------------------------------------------ C36
\* C36: after every operation the state shown to the user equals the state
\* that gates admission: isLoggingPaused, isLoggingThrottled and
\* throttleDelay equal paused, throttled and delay of throttleConfigRef.
C36_ShownIsGating ==
  /\ isLoggingPaused = throttleConfigRef.paused
  /\ isLoggingThrottled = throttleConfigRef.throttled
  /\ throttleDelay = throttleConfigRef.delay

C38_StatusRendered ==
  [][LET c == throttleConfigRef
         announced ==
           CASE ModeOf(c) = "Throttled(250)"  -> MsgEnabled
             [] ModeOf(c) = "Throttled(500)"  -> MsgSet500
             [] ModeOf(c) = "Throttled(1000)" -> MsgSet1000
             [] ModeOf(c) = "Paused"          -> MsgPaused
             [] ModeOf(c) = "Normal"          -> MsgDisabled
             [] OTHER                         -> ""
     IN (/\ StatusTimerFire
         /\ logElementRef /\ panel /\ screenLog = "A"
         /\ Head(timeouts).message = announced) =>
          /\ content' # <<>>
          /\ content'[Len(content')].text = announced
          /\ content'[Len(content')].sid = nextSid]_vars

C39_OneInterval ==
  /\ intervals <= 1
  /\ testSignalIntervalRef <=> intervals = 1

\* the interval armed again by the status timer of a toggle, after test
\* signals were sent
C39_Witness ==
  /\ enableTesting
  /\ testSignalIntervalRef
  /\ intervals = 1
  /\ testSignalCountRef >= 1
  /\ timeouts = <<>>
  /\ content # <<>>
  /\ content[Len(content)].text \in
       {MsgEnabled, MsgSet500, MsgSet1000, MsgDisabled}

====
